---- MODULE Spec2Model ----
(***************************************************************************)
(* Order lifecycle engine of the cafeteria backend: the order aggregate    *)
(* (apps/orders/models.py), the lifecycle state machine                    *)
(* (apps/orders/patterns/state.py), the reversible command log             *)
(* (apps/orders/patterns/command.py) and the snapshot store                *)
(* (apps/orders/patterns/memento.py).                                      *)
(*                                                                         *)
(* The durable store is one row per order and one row per line.  A model   *)
(* instance held by a command is the row itself; Model.save() writes the   *)
(* row and inserts it again when it has been deleted (Django's upsert).    *)
(* Money is counted in cents.  Timestamps are readings of a clock that     *)
(* advances on every reading; 0 stands for None.                           *)
(***************************************************************************)
EXTENDS Integers, Sequences, FiniteSets, TLC

\* ------------------------------------------------------------------ bounds
MaxOrders == 1
MaxLines == 2
MaxQty == 2
MaxClock == 2
MaxHistory == 2
MaxSnapshots == 1
MaxRequests == 2

OrderIds == 1..MaxOrders
LineIds == 1..MaxLines
Quantities == 1..MaxQty

\* ------------------------------------------------------- menu collaborator
\* Two catalog products: 1 is a coffee (2.50, offers the extra 'leche' at
\* 0.50), 2 is a sandwich (6.50, offers no extras).
Products == {1, 2}
BasePrice == <<250, 650>>
AvailableExtras == <<50, 0>>
MilkPrice == 50
ExtrasChoices == {FALSE, TRUE}

\* Product.available_extras of each product: the price the catalog asks
\* for the extra now (0 when the product offers none).  AvailableExtras is
\* the catalog the products are created with.
VARIABLE available_extras

\* Product.get_extras_price: the catalog price of the selected extras.
get_extras_price(p, extras) == IF extras THEN available_extras[p] ELSE 0

\* DecoratorFactory.get_decorated_info(product, extras)['price']: the base
\* price plus the decorator's own price of the milk extra.
get_decorated_price(p, extras) == BasePrice[p] + (IF extras THEN MilkPrice ELSE 0)

\* ------------------------------------------------------------ order states
STATUS_CHOICES == {"PENDIENTE", "EN_PREPARACION", "LISTO", "ENTREGADO", "CANCELADO"}
None == "None"

\* KitchenStation.STATION_TYPES (kitchen/models.py).
STATION_TYPES == {"BEBIDAS_CALIENTES", "BEBIDAS_FRIAS", "PANADERIA", "COCINA", "POSTRES"}

VARIABLES orders, items, nextOrderId, nextItemId, clock,
          history, current, budget, mementos, visited, trip,
          queue, stations, cache, saved, max_snapshots_per_order, inflight,
          notif

vars == <<orders, items, nextOrderId, nextItemId, clock,
          history, current, budget, mementos, visited, trip,
          queue, stations, cache, saved, max_snapshots_per_order, inflight, notif,
          available_extras>>

\* Variant of next_state in which PendingState skips EN_PREPARACION.
next_state_skip(s) ==
    CASE s = "PENDIENTE" -> "LISTO"
      [] s = "EN_PREPARACION" -> "LISTO"
      [] s = "LISTO" -> "ENTREGADO"
      [] s = "ENTREGADO" -> None
      [] s = "CANCELADO" -> None

\* OrderState.next_state of the five state classes.
next_state(s) ==
    CASE s = "PENDIENTE" -> "EN_PREPARACION"
      [] s = "EN_PREPARACION" -> "LISTO"
      [] s = "LISTO" -> "ENTREGADO"
      [] s = "ENTREGADO" -> None
      [] s = "CANCELADO" -> None

\* Variant of can_cancel in which ReadyState allows cancelling.
state_can_cancel_ready(s) ==
    CASE s = "PENDIENTE" -> TRUE
      [] s = "EN_PREPARACION" -> TRUE
      [] s = "LISTO" -> TRUE
      [] s = "ENTREGADO" -> FALSE
      [] s = "CANCELADO" -> FALSE

\* OrderState.can_cancel of the five state classes.
state_can_cancel(s) ==
    CASE s = "PENDIENTE" -> TRUE
      [] s = "EN_PREPARACION" -> TRUE
      [] s = "LISTO" -> FALSE
      [] s = "ENTREGADO" -> FALSE
      [] s = "CANCELADO" -> FALSE

\* Variant of can_edit in which InPreparationState allows editing.
state_can_edit_lax(s) ==
    CASE s = "PENDIENTE" -> TRUE
      [] s = "EN_PREPARACION" -> TRUE
      [] s = "LISTO" -> FALSE
      [] s = "ENTREGADO" -> FALSE
      [] s = "CANCELADO" -> FALSE

\* OrderState.can_edit of the five state classes.
state_can_edit(s) ==
    CASE s = "PENDIENTE" -> TRUE
      [] s = "EN_PREPARACION" -> FALSE
      [] s = "LISTO" -> FALSE
      [] s = "ENTREGADO" -> FALSE
      [] s = "CANCELADO" -> FALSE

\* OrderState.can_advance.
state_can_advance(s) == next_state(s) # None

\* OrderStateManager.get_state: the state object of the order's status,
\* PendingState for a status outside the map.
get_state(status) == IF status \in STATUS_CHOICES THEN status ELSE "PENDIENTE"

\* OrderState.get_allowed_actions.
get_allowed_actions(s) ==
    (IF state_can_advance(s) THEN {"advance"} ELSE {})
      \cup (IF state_can_cancel(s) THEN {"cancel"} ELSE {})
      \cup (IF state_can_edit(s) THEN {"edit"} ELSE {})

\* OrderStateManager.get_state_info.
get_state_info(o) ==
    LET current_state == get_state(orders[o].status) IN
    [order_id |-> o,
     current_state |-> current_state,
     can_advance |-> state_can_advance(current_state),
     can_cancel |-> state_can_cancel(current_state),
     can_edit |-> state_can_edit(current_state),
     allowed_actions |-> get_allowed_actions(current_state),
     next_state |-> next_state(current_state)]

\* Order.can_cancel (models.py).
order_can_cancel(status) == status \in {"PENDIENTE", "EN_PREPARACION"}

\* ------------------------------------------------------------- the store
\* A row of the orders table; exists is FALSE before the row is inserted
\* and after it is deleted (the fields then are those of the instance).
NoOrder == [exists |-> FALSE, status |-> "PENDIENTE", total_price |-> 0,
            prepared_at |-> 0, delivered_at |-> 0,
            table_number |-> 0, special_instructions |-> ""]

\* The table the orders are taken at, and the special instructions an
\* order may carry.
TableNumber == 5
Instructions == {"", "sin azucar"}

\* A row of the order_items table.
NoItem == [exists |-> FALSE, order |-> 0, product |-> 0, quantity |-> 0,
           unit_price |-> 0, extras |-> FALSE, extras_price |-> 0, subtotal |-> 0]

\* The requests that can be in progress at the same time (two workers of
\* the server), and what a request holds between its steps: pc is its
\* position, order the id it was called with, row the Order instance that
\* Order.objects.get returned to it.
Requests == {"a", "b"}
Idle == [pc |-> "idle", order |-> 0, row |-> NoOrder]

\* The observers of the notification service: the kitchen observer, the
\* observer of the waiter, the observer of the customer of the orders and
\* the observer of another customer, who has no part in them.
Observers == {"kitchen", "waiter", "customer", "other"}

\* The event kinds the service sends.
Events == {"NEW_ORDER", "ORDER_READY", "ORDER_DELIVERED", "ORDER_CANCELLED",
           "ORDER_MODIFIED", "ORDER_DELAYED"}

\* The notification service after NotificationService(): observers is
\* Subject._observers of the subject the instance holds (the kitchen
\* observer is attached by _initialize), waiters and customers are the
\* keys of _waiter_observers and _customer_observers, inbox the
\* notifications list of each observer; broken are the observers whose
\* update() raises.
NoNotif == [observers |-> <<"kitchen">>, waiters |-> {}, customers |-> {},
            broken |-> {}, inbox |-> [x \in Observers |-> <<>>]]

\* The part of the state a command reads and writes.
Store == [orders |-> orders, items |-> items, nextOrderId |-> nextOrderId,
          nextItemId |-> nextItemId, clock |-> clock, queue |-> queue]

\* The rows of the station_queue table of one station and one order: the
\* number of rows with is_completed = False, and whether there are rows
\* with is_completed = True (nothing reads more of the completed rows).
NoQueue == [pending |-> 0, completed |-> FALSE]

\* The station queues: the rows of each (station type, order) that has any.
QueueOf(q, t, o) == IF <<t, o>> \in DOMAIN q THEN q[<<t, o>>] ELSE NoQueue

PutQueue(q, t, o, row) ==
    [p \in (DOMAIN q) \cup {<<t, o>>} |-> IF p = <<t, o>> THEN row ELSE q[p]]

\* order.items.all()
ItemsOf(it, o) == {l \in LineIds : it[l].exists /\ it[l].order = o}

RECURSIVE SumSubtotals(_, _)
SumSubtotals(it, ls) ==
    IF ls = {} THEN 0
    ELSE LET l == CHOOSE x \in ls : TRUE
         IN it[l].subtotal + SumSubtotals(it, ls \ {l})

\* OrderItem.save / calculate_subtotal with ep the result of
\* self.product.get_extras_price(self.extras): the extras price is
\* overwritten and the subtotal recomputed; the row is written (inserted
\* when absent).
SaveItemAt(row, ep) ==
    [row EXCEPT !.exists = TRUE, !.extras_price = ep,
                !.subtotal = (row.unit_price + ep) * row.quantity]

\* OrderItem.save / calculate_subtotal on an instance whose product is
\* read from the catalog now.
SaveItem(row) == SaveItemAt(row, get_extras_price(row.product, row.extras))

\* Order.calculate_total: total_price := sum of the subtotals; save().
calculate_total(S, o) ==
    [S EXCEPT !.orders[o].total_price = SumSubtotals(S.items, ItemsOf(S.items, o)),
              !.orders[o].exists = TRUE]

\* OrderItem.objects.create(order, product, quantity, unit_price, extras).
CreateItem(S, o, p, q, price, extras) ==
    IF S.nextItemId \notin LineIds THEN [S EXCEPT !.nextItemId = S.nextItemId + 1]
    ELSE
    [S EXCEPT !.items[S.nextItemId] =
                  SaveItem([exists |-> TRUE, order |-> o, product |-> p,
                            quantity |-> q, unit_price |-> price, extras |-> extras,
                            extras_price |-> 0, subtotal |-> 0]),
              !.nextItemId = S.nextItemId + 1]

\* item.delete()
DeleteItem(S, l) == [S EXCEPT !.items[l].exists = FALSE]

\* Variant of order.delete() without the cascade: the row of the order
\* alone is deleted.
DeleteOrderRow(S, o) == [S EXCEPT !.orders[o].exists = FALSE]

\* order.delete(): the row and, by cascade, its lines and its rows of the
\* station queues.
DeleteOrder(S, o) ==
    [S EXCEPT !.orders[o].exists = FALSE,
              !.items = [l \in LineIds |->
                           IF S.items[l].exists /\ S.items[l].order = o
                           THEN [S.items[l] EXCEPT !.exists = FALSE]
                           ELSE S.items[l]],
              !.queue = [p \in {x \in DOMAIN S.queue : x[2] # o} |-> S.queue[p]]]

\* ------------------------------------------------------- snapshot store
\* OrderMemento._calculate_checksum: hash of order id, status, total and
\* number of lines.
calculate_checksum(o, status, total, n) == <<o, status, total, n>>

\* OrderOriginator.create_memento.
create_memento(S, o, tag) ==
    LET n == Cardinality(ItemsOf(S.items, o)) IN
    [tag |-> tag, order_id |-> o, status |-> S.orders[o].status,
     total_price |-> S.orders[o].total_price, items_count |-> n,
     table_number |-> S.orders[o].table_number,
     special_instructions |-> S.orders[o].special_instructions,
     checksum |-> calculate_checksum(o, S.orders[o].status,
                                     S.orders[o].total_price, n)]

\* OrderMemento.is_valid.
is_valid(m) == m.checksum = calculate_checksum(m.order_id, m.status,
                                               m.total_price, m.items_count)

\* Variant of OrderCaretaker.save that drops the newest memento beyond the
\* cap.
caretaker_save_newest(mm, S, o, tag) ==
    LET app == Append(mm[o], create_memento(S, o, tag)) IN
    [mm EXCEPT ![o] = IF Len(app) > max_snapshots_per_order
                      THEN SubSeq(app, 1, Len(app) - 1) ELSE app]

\* OrderCaretaker.save: append, then drop the oldest beyond the cap of the
\* caretaker.
caretaker_save(mm, S, o, tag) ==
    LET app == Append(mm[o], create_memento(S, o, tag)) IN
    [mm EXCEPT ![o] = IF Len(app) > max_snapshots_per_order THEN Tail(app) ELSE app]

\* OrderCaretaker.get_latest: the last memento of the list, None without
\* one.
get_latest(mm, o) == IF mm[o] = <<>> THEN None ELSE mm[o][Len(mm[o])]

\* OrderCaretaker.get_history: the summaries of the mementos (tag, status,
\* total, number of lines) in the order of the list.
get_history(mm, o) ==
    [i \in 1..Len(mm[o]) |->
        [tag |-> mm[o][i].tag, status |-> mm[o][i].status,
         total |-> mm[o][i].total_price, items_count |-> mm[o][i].items_count]]

\* The position of the memento OrderCaretaker.restore picks: the first
\* one of the list saved under the tag; 0 when there is none.
FindTag(ms, tag) ==
    IF \E i \in 1..Len(ms) : ms[i].tag = tag
    THEN CHOOSE i \in 1..Len(ms) :
             ms[i].tag = tag /\ \A j \in 1..(i - 1) : ms[j].tag # tag
    ELSE 0

\* Variant of OrderOriginator.restore_from_memento that also brings the
\* lines back to the snapshot: the lines of the order are deleted when the
\* memento recorded none.
restore_from_memento_lines(S, o, m) ==
    [S EXCEPT !.orders[o].status = m.status,
              !.orders[o].total_price = m.total_price,
              !.orders[o].table_number = m.table_number,
              !.orders[o].special_instructions = m.special_instructions,
              !.orders[o].exists = TRUE,
              !.items = [l \in LineIds |->
                           IF m.items_count = 0 /\ S.items[l].exists /\ S.items[l].order = o
                           THEN [S.items[l] EXCEPT !.exists = FALSE]
                           ELSE S.items[l]]]

\* OrderOriginator.restore_from_memento: status, total, table number and
\* special instructions are copied back onto the order, the lines are left
\* alone.
restore_from_memento(S, o, m) ==
    [S EXCEPT !.orders[o].status = m.status,
              !.orders[o].total_price = m.total_price,
              !.orders[o].table_number = m.table_number,
              !.orders[o].special_instructions = m.special_instructions,
              !.orders[o].exists = TRUE]

\* -------------------------------------------------- lifecycle state machine
\* OrderState.validate_transition of the current state: only
\* InPreparationState overrides it, requiring at least one line.
validate_transition(current_state, S, o) ==
    IF current_state = "EN_PREPARACION"
    THEN ItemsOf(S.items, o) # {}
    ELSE TRUE

\* Variant of handle in which InPreparationState and ReadyState get past
\* the notification and save their snapshot.
handle_notified(state, S, mm, o) ==
    LET stamp == state \in {"LISTO", "ENTREGADO"}
        S1 == [S EXCEPT !.orders[o].status = state,
                        !.orders[o].prepared_at = IF state = "LISTO" THEN S.clock ELSE @,
                        !.orders[o].delivered_at = IF state = "ENTREGADO" THEN S.clock ELSE @,
                        !.orders[o].exists = TRUE,
                        !.clock = IF stamp THEN S.clock + 1 ELSE @]
        tag == CASE state = "PENDIENTE" -> "pending"
                 [] state = "EN_PREPARACION" -> "in_preparation"
                 [] state = "LISTO" -> "ready"
                 [] state = "ENTREGADO" -> "delivered"
                 [] state = "CANCELADO" -> "cancelled"
    IN [res |-> "ok", S |-> S1, mm |-> caretaker_save(mm, S1, o, tag)]

\* OrderState.handle of the state entered.  The status (and the timestamp
\* of the state) is written and saved first.  InPreparationState and
\* ReadyState then call NotificationService.notify_kitchen / notify_waiter,
\* which NotificationService does not define: the call raises
\* AttributeError and the snapshot that follows it is not taken.  The
\* other states save a snapshot under their tag.
handle(state, S, mm, o) ==
    CASE state = "PENDIENTE" ->
           LET S1 == [S EXCEPT !.orders[o].status = "PENDIENTE",
                               !.orders[o].exists = TRUE]
           IN [res |-> "ok", S |-> S1, mm |-> caretaker_save(mm, S1, o, "pending")]
      [] state = "EN_PREPARACION" ->
           LET S1 == [S EXCEPT !.orders[o].status = "EN_PREPARACION",
                               !.orders[o].exists = TRUE]
           IN [res |-> "AttributeError", S |-> S1, mm |-> mm]
      [] state = "LISTO" ->
           LET S1 == [S EXCEPT !.orders[o].status = "LISTO",
                               !.orders[o].prepared_at = S.clock,
                               !.orders[o].exists = TRUE,
                               !.clock = S.clock + 1]
           IN [res |-> "AttributeError", S |-> S1, mm |-> mm]
      [] state = "ENTREGADO" ->
           LET S1 == [S EXCEPT !.orders[o].status = "ENTREGADO",
                               !.orders[o].delivered_at = S.clock,
                               !.orders[o].exists = TRUE,
                               !.clock = S.clock + 1]
           IN [res |-> "ok", S |-> S1, mm |-> caretaker_save(mm, S1, o, "delivered")]
      [] state = "CANCELADO" ->
           LET S1 == [S EXCEPT !.orders[o].status = "CANCELADO",
                               !.orders[o].exists = TRUE]
           IN [res |-> "ok", S |-> S1, mm |-> caretaker_save(mm, S1, o, "cancelled")]

\* OrderStateManager.advance_order.
advance_order(S, mm, o) ==
    LET current_state == get_state(S.orders[o].status)
        nxt == next_state(current_state)
    IN IF nxt = None
       THEN [res |-> "InvalidTransition", S |-> S, mm |-> mm]
       ELSE IF ~validate_transition(current_state, S, o)
       THEN [res |-> "PreconditionFailed", S |-> S, mm |-> mm]
       ELSE handle(nxt, S, mm, o)

\* Variant of cancel_order without the can_cancel test.
cancel_order_unchecked(S, mm, o) == handle("CANCELADO", S, mm, o)

\* OrderStateManager.cancel_order.
cancel_order(S, mm, o) ==
    LET current_state == get_state(S.orders[o].status)
    IN IF ~state_can_cancel(current_state)
       THEN [res |-> "InvalidTransition", S |-> S, mm |-> mm]
       ELSE handle("CANCELADO", S, mm, o)

\* ------------------------------------------------------------- commands
\* Command.__init__ and the __init__ of the six command classes: the
\* fields of all of them in one record; 0, None and <<>> stand for None.
NewCommand(kind, o) ==
    [kind |-> kind, order |-> o, executed |-> FALSE, undone |-> FALSE,
     new_status |-> None, previous_status |-> None, previous_data |-> <<>>,
     citems |-> <<>>, product_id |-> 0, quantity |-> 0, extras |-> FALSE,
     item |-> 0, item_id |-> 0, item_data |-> <<>>, previous_quantity |-> 0,
     item_extras_price |-> 0]

\* CreateOrderCommand(customer, table_number, items).
CreateOrderCommand(its) == [NewCommand("CreateOrder", 0) EXCEPT !.citems = its]

\* UpdateOrderStatusCommand(order, new_status): the previous status is
\* read from the order when the command is built.
UpdateOrderStatusCommand(o, new_status) ==
    [NewCommand("UpdateOrderStatus", o) EXCEPT
        !.new_status = new_status, !.previous_status = orders[o].status]

\* CancelOrderCommand(order, reason).
CancelOrderCommand(o) ==
    [NewCommand("CancelOrder", o) EXCEPT !.previous_status = orders[o].status]

\* AddItemCommand(order, product_id, quantity, extras).
AddItemCommand(o, p, q, e) ==
    [NewCommand("AddItem", o) EXCEPT !.product_id = p, !.quantity = q, !.extras = e]

\* RemoveItemCommand(order, item_id).
RemoveItemCommand(o, l) == [NewCommand("RemoveItem", o) EXCEPT !.item_id = l]

\* UpdateItemQuantityCommand(order, item_id, new_quantity).
UpdateItemQuantityCommand(o, l, q) ==
    [NewCommand("UpdateItemQuantity", o) EXCEPT !.item_id = l, !.quantity = q]

\* Command.can_undo.
can_undo(cmd) == cmd.executed /\ ~cmd.undone

\* The loop of CreateOrderCommand.execute over the requested items.
RECURSIVE AddItems(_, _, _)
AddItems(S, o, its) ==
    IF its = <<>> THEN S
    ELSE AddItems(CreateItem(S, o, its[1][1], its[1][2],
                             get_decorated_price(its[1][1], its[1][3]), its[1][3]),
                  o, Tail(its))

\* CreateOrderCommand.execute.
CreateOrderExecute(cmd, S) ==
    LET o == S.nextOrderId
        S1 == [S EXCEPT !.orders[o] = [NoOrder EXCEPT !.exists = TRUE,
                                                     !.table_number = TableNumber],
                        !.nextOrderId = o + 1]
        S2 == IF o \in OrderIds
              THEN calculate_total(AddItems(S1, o, cmd.citems), o)
              ELSE [S EXCEPT !.nextOrderId = o + 1]
    IN [res |-> "ok", S |-> S2,
        cmd |-> [cmd EXCEPT !.order = o, !.executed = TRUE]]

\* CreateOrderCommand.undo.
CreateOrderUndo(cmd, S) ==
    [res |-> "ok", S |-> DeleteOrder(S, cmd.order),
     cmd |-> [cmd EXCEPT !.order = 0, !.undone = TRUE]]

\* UpdateOrderStatusCommand.execute: the target status is written as
\* given, with the timestamp of the target state.
UpdateOrderStatusExecute(cmd, S) ==
    LET o == cmd.order
        stamp == cmd.new_status \in {"LISTO", "ENTREGADO"}
        S1 == [S EXCEPT
                 !.orders[o].status = cmd.new_status,
                 !.orders[o].prepared_at =
                     IF cmd.new_status = "LISTO" THEN S.clock ELSE @,
                 !.orders[o].delivered_at =
                     IF cmd.new_status = "ENTREGADO" THEN S.clock ELSE @,
                 !.orders[o].exists = TRUE,
                 !.clock = IF stamp THEN S.clock + 1 ELSE @]
    IN [res |-> "ok", S |-> S1, cmd |-> [cmd EXCEPT !.executed = TRUE]]

\* UpdateOrderStatusCommand.undo.
UpdateOrderStatusUndo(cmd, S) ==
    LET o == cmd.order
        p == cmd.previous_status
        S1 == [S EXCEPT
                 !.orders[o].status = p,
                 !.orders[o].prepared_at =
                     IF p \in {"PENDIENTE", "EN_PREPARACION"} THEN 0 ELSE @,
                 !.orders[o].delivered_at =
                     IF p \in {"PENDIENTE", "EN_PREPARACION", "LISTO"} THEN 0 ELSE @,
                 !.orders[o].exists = TRUE]
    IN [res |-> "ok", S |-> S1, cmd |-> [cmd EXCEPT !.undone = TRUE]]

\* CancelOrderCommand.execute.
CancelOrderExecute(cmd, S) ==
    LET o == cmd.order
        row == S.orders[o]
    IN IF ~order_can_cancel(row.status)
       THEN [res |-> "ValueError", S |-> S, cmd |-> cmd]
       ELSE [res |-> "ok",
             S |-> [S EXCEPT !.orders[o].status = "CANCELADO",
                             !.orders[o].exists = TRUE],
             cmd |-> [cmd EXCEPT
                        !.previous_data = <<row.status, row.prepared_at, row.delivered_at>>,
                        !.executed = TRUE]]

\* CancelOrderCommand.undo.
CancelOrderUndo(cmd, S) ==
    LET o == cmd.order
        S1 == IF cmd.previous_data # <<>>
              THEN [S EXCEPT !.orders[o].status = cmd.previous_data[1],
                             !.orders[o].prepared_at = cmd.previous_data[2],
                             !.orders[o].delivered_at = cmd.previous_data[3],
                             !.orders[o].exists = TRUE]
              ELSE S
    IN [res |-> "ok", S |-> S1, cmd |-> [cmd EXCEPT !.undone = TRUE]]

\* Variant of AddItemCommand.execute that also edits an order in
\* preparation.
AddItemExecute_lax(cmd, S) ==
    LET o == cmd.order IN
    IF S.orders[o].status \notin {"PENDIENTE", "EN_PREPARACION"}
    THEN [res |-> "ValueError", S |-> S, cmd |-> cmd]
    ELSE IF ~S.orders[o].exists
    THEN [res |-> "IntegrityError", S |-> S, cmd |-> cmd]
    ELSE LET S1 == CreateItem(S, o, cmd.product_id, cmd.quantity,
                              get_decorated_price(cmd.product_id, cmd.extras),
                              cmd.extras)
         IN [res |-> "ok", S |-> calculate_total(S1, o),
             cmd |-> [cmd EXCEPT !.item = S.nextItemId, !.executed = TRUE]]

\* AddItemCommand.execute.  Inserting a line of an order whose row is gone
\* is refused by the store.
AddItemExecute(cmd, S) ==
    LET o == cmd.order IN
    IF S.orders[o].status # "PENDIENTE"
    THEN [res |-> "ValueError", S |-> S, cmd |-> cmd]
    ELSE IF ~S.orders[o].exists
    THEN [res |-> "IntegrityError", S |-> S, cmd |-> cmd]
    ELSE LET S1 == CreateItem(S, o, cmd.product_id, cmd.quantity,
                              get_decorated_price(cmd.product_id, cmd.extras),
                              cmd.extras)
         IN [res |-> "ok", S |-> calculate_total(S1, o),
             cmd |-> [cmd EXCEPT !.item = S.nextItemId, !.executed = TRUE]]

\* AddItemCommand.undo.
AddItemUndo(cmd, S) ==
    LET S1 == IF cmd.item # 0
              THEN calculate_total(DeleteItem(S, cmd.item), cmd.order)
              ELSE S
    IN [res |-> "ok", S |-> S1, cmd |-> [cmd EXCEPT !.item = 0, !.undone = TRUE]]

\* OrderItem.objects.get(id=item_id, order=order) finds a row.
ItemFound(S, o, l) == l \in LineIds /\ S.items[l].exists /\ S.items[l].order = o

\* RemoveItemCommand.execute.
RemoveItemExecute(cmd, S) ==
    LET o == cmd.order
        l == cmd.item_id
    IN IF S.orders[o].status # "PENDIENTE"
       THEN [res |-> "ValueError", S |-> S, cmd |-> cmd]
       ELSE IF ~ItemFound(S, o, l)
       THEN [res |-> "DoesNotExist", S |-> S, cmd |-> cmd]
       ELSE [res |-> "ok",
             S |-> calculate_total(DeleteItem(S, l), o),
             cmd |-> [cmd EXCEPT
                        !.item_data = <<S.items[l].product, S.items[l].quantity,
                                        S.items[l].unit_price, S.items[l].extras>>,
                        !.executed = TRUE]]

\* Variant of RemoveItemCommand.undo that does not recompute the total.
RemoveItemUndo_stale(cmd, S) ==
    LET o == cmd.order
        d == cmd.item_data
    IN IF d = <<>>
       THEN [res |-> "ok", S |-> S, cmd |-> [cmd EXCEPT !.undone = TRUE]]
       ELSE IF ~S.orders[o].exists
       THEN [res |-> "IntegrityError", S |-> S, cmd |-> cmd]
       ELSE [res |-> "ok",
             S |-> CreateItem(S, o, d[1], d[2], d[3], d[4]),
             cmd |-> [cmd EXCEPT !.undone = TRUE]]

\* Variant of RemoveItemCommand.undo that prices the new line from the
\* catalog instead of the saved unit price.
RemoveItemUndo_catalog(cmd, S) ==
    LET o == cmd.order
        d == cmd.item_data
    IN IF d = <<>>
       THEN [res |-> "ok", S |-> S, cmd |-> [cmd EXCEPT !.undone = TRUE]]
       ELSE IF ~S.orders[o].exists
       THEN [res |-> "IntegrityError", S |-> S, cmd |-> cmd]
       ELSE [res |-> "ok",
             S |-> calculate_total(CreateItem(S, o, d[1], d[2], BasePrice[d[1]], d[4]), o),
             cmd |-> [cmd EXCEPT !.undone = TRUE]]

\* RemoveItemCommand.undo: a new line with the saved data.
RemoveItemUndo(cmd, S) ==
    LET o == cmd.order
        d == cmd.item_data
    IN IF d = <<>>
       THEN [res |-> "ok", S |-> S, cmd |-> [cmd EXCEPT !.undone = TRUE]]
       ELSE IF ~S.orders[o].exists
       THEN [res |-> "IntegrityError", S |-> S, cmd |-> cmd]
       ELSE [res |-> "ok",
             S |-> calculate_total(CreateItem(S, o, d[1], d[2], d[3], d[4]), o),
             cmd |-> [cmd EXCEPT !.undone = TRUE]]

\* UpdateItemQuantityCommand.execute.
UpdateItemQuantityExecute(cmd, S) ==
    LET o == cmd.order
        l == cmd.item_id
    IN IF S.orders[o].status # "PENDIENTE"
       THEN [res |-> "ValueError", S |-> S, cmd |-> cmd]
       ELSE IF ~ItemFound(S, o, l)
       THEN [res |-> "DoesNotExist", S |-> S, cmd |-> cmd]
       ELSE LET S1 == [S EXCEPT !.items[l] =
                          SaveItem([S.items[l] EXCEPT !.quantity = cmd.quantity])]
            IN [res |-> "ok", S |-> calculate_total(S1, o),
                cmd |-> [cmd EXCEPT !.item = l,
                                    !.previous_quantity = S.items[l].quantity,
                                    !.item_extras_price =
                                        get_extras_price(S.items[l].product,
                                                         S.items[l].extras),
                                    !.executed = TRUE]]

\* UpdateItemQuantityCommand.undo: the line instance kept by the command
\* gets its previous quantity and is saved (inserted again if its row was
\* deleted meanwhile).  The instance holds the product it loaded in
\* execute(), so the extras price is the one of the catalog of then.
UpdateItemQuantityUndo(cmd, S) ==
    LET o == cmd.order
        l == cmd.item
        S1 == IF l # 0
              THEN calculate_total(
                     [S EXCEPT !.items[l] =
                        SaveItemAt([S.items[l] EXCEPT !.quantity = cmd.previous_quantity],
                                   cmd.item_extras_price)],
                     o)
              ELSE S
    IN [res |-> "ok", S |-> S1, cmd |-> [cmd EXCEPT !.undone = TRUE]]

\* command.execute(), by class.
Execute(cmd, S) ==
    CASE cmd.kind = "CreateOrder" -> CreateOrderExecute(cmd, S)
      [] cmd.kind = "UpdateOrderStatus" -> UpdateOrderStatusExecute(cmd, S)
      [] cmd.kind = "CancelOrder" -> CancelOrderExecute(cmd, S)
      [] cmd.kind = "AddItem" -> AddItemExecute(cmd, S)
      [] cmd.kind = "RemoveItem" -> RemoveItemExecute(cmd, S)
      [] cmd.kind = "UpdateItemQuantity" -> UpdateItemQuantityExecute(cmd, S)

\* command.undo(), by class.
UndoCommand(cmd, S) ==
    CASE cmd.kind = "CreateOrder" -> CreateOrderUndo(cmd, S)
      [] cmd.kind = "UpdateOrderStatus" -> UpdateOrderStatusUndo(cmd, S)
      [] cmd.kind = "CancelOrder" -> CancelOrderUndo(cmd, S)
      [] cmd.kind = "AddItem" -> AddItemUndo(cmd, S)
      [] cmd.kind = "RemoveItem" -> RemoveItemUndo(cmd, S)
      [] cmd.kind = "UpdateItemQuantity" -> UpdateItemQuantityUndo(cmd, S)

\* ----------------------------------------------------- observation state
\* The lines of an order as a multiset of (product, quantity, unit price):
\* each triple with the number of lines that carry it.
LinesBag(it, o) ==
    {<<it[l].product, it[l].quantity, it[l].unit_price,
       Cardinality({k \in ItemsOf(it, o) :
                      /\ it[k].product = it[l].product
                      /\ it[k].quantity = it[l].quantity
                      /\ it[k].unit_price = it[l].unit_price})>> : l \in ItemsOf(it, o)}

\* What a client can observe of an order: status, lines, total.
Observable(S, o) ==
    IF o \in OrderIds /\ S.orders[o].exists
    THEN <<S.orders[o].status, LinesBag(S.items, o), S.orders[o].total_price>>
    ELSE <<"absent", {}, 0>>

\* The identifiers and clock readings a step needs are within the bounds.
Fits(S) ==
    /\ S.nextOrderId <= MaxOrders + 1
    /\ S.nextItemId <= MaxLines + 1
    /\ S.clock <= MaxClock + 1

\* The step leaves the store in S.
Apply(S) ==
    /\ orders' = S.orders
    /\ items' = S.items
    /\ nextOrderId' = S.nextOrderId
    /\ nextItemId' = S.nextItemId
    /\ clock' = S.clock
    /\ queue' = S.queue

\* saved[o] records the latest call of OrderCaretaker.save on order o: the
\* tag, and the status and total the order had then; <<>> before any.

\* Record of the statuses each order has held since it was inserted.
Track(S) ==
    visited' = [x \in OrderIds |->
                IF S.orders[x].exists
                THEN (IF orders[x].exists THEN visited[x] ELSE {})
                       \cup {S.orders[x].status}
                ELSE {}]

NoTrip == [phase |-> 0, obs |-> <<>>]

\* --------------------------------------------------------- kitchen router
\* Category.CATEGORY_TYPES (menu/models.py).
CATEGORY_TYPES == {"BEBIDAS", "ENTRADAS", "COMIDAS", "POSTRES"}

\* The keyword lists of the handlers.  The name of a product is modelled
\* by the lists of which it contains a keyword (hot_keywords,
\* cold_keywords, bakery_keywords, food_keywords, dessert_keywords) and by
\* whether it contains 'caliente', which is one of the hot keywords.
KeywordLists == {"hot", "cold", "bakery", "food", "dessert"}

\* What the router reads of a product: category type, name, preparation
\* time.
PrepTimes == {4, 8}
ProductData ==
    {d \in [category_type : CATEGORY_TYPES, keys : SUBSET KeywordLists,
            caliente : BOOLEAN, preparation_time : PrepTimes] :
        d.caliente => "hot" \in d.keys}

\* The two catalog products: 'Café Americano' (BEBIDAS, 4 minutes) and
\* 'Sandwich Club' (COMIDAS, 8 minutes).
Catalog ==
    <<[category_type |-> "BEBIDAS", keys |-> {"hot"}, caliente |-> FALSE,
       preparation_time |-> 4],
      [category_type |-> "COMIDAS", keys |-> {"food"}, caliente |-> FALSE,
       preparation_time |-> 8]>>

\* The handlers KitchenRouter._build_chain creates.
Handlers == {"hot_beverages", "cold_beverages", "bakery", "main_kitchen",
             "dessert", "default"}

\* can_handle of the six handler classes.
can_handle(h, d) ==
    CASE h = "hot_beverages" -> d.category_type = "BEBIDAS" /\ "hot" \in d.keys
      [] h = "cold_beverages" -> d.category_type = "BEBIDAS" /\ "cold" \in d.keys
      [] h = "bakery" -> d.category_type = "ENTRADAS" /\ "bakery" \in d.keys
      [] h = "main_kitchen" -> d.category_type = "COMIDAS" \/ "food" \in d.keys
      [] h = "dessert" -> d.category_type = "POSTRES" \/ "dessert" \in d.keys
      [] h = "default" -> TRUE

\* get_station_type of the six handler classes.
get_station_type(h) ==
    CASE h = "hot_beverages" -> "BEBIDAS_CALIENTES"
      [] h = "cold_beverages" -> "BEBIDAS_FRIAS"
      [] h = "bakery" -> "PANADERIA"
      [] h = "main_kitchen" -> "COCINA"
      [] h = "dessert" -> "POSTRES"
      [] h = "default" -> "COCINA"

\* get_priority: the preparation time, 10 more for a name with
\* 'caliente', plus the bonus of the handler class (DefaultHandler adds
\* none).
get_priority(h, d) ==
    d.preparation_time + (IF d.caliente THEN 10 ELSE 0)
      + (CASE h = "hot_beverages" -> 15
           [] h = "cold_beverages" -> 10
           [] h = "bakery" -> 12
           [] h = "main_kitchen" -> 20
           [] h = "dessert" -> 5
           [] h = "default" -> 0)

\* Variant of the chain that passes from the bakery to the desserts; the
\* main kitchen handler is not in it.
next_handler_no_kitchen(h) ==
    CASE h = "hot_beverages" -> "cold_beverages"
      [] h = "cold_beverages" -> "bakery"
      [] h = "bakery" -> "dessert"
      [] h = "main_kitchen" -> "hot_beverages"
      [] h = "dessert" -> "default"
      [] h = "default" -> None

\* The chain KitchenRouter._build_chain links with set_next.
next_handler(h) ==
    CASE h = "hot_beverages" -> "cold_beverages"
      [] h = "cold_beverages" -> "bakery"
      [] h = "bakery" -> "main_kitchen"
      [] h = "main_kitchen" -> "dessert"
      [] h = "dessert" -> "default"
      [] h = "default" -> None

\* The first handler of the chain, where route_order hands each item in.
first_handler == "hot_beverages"

\* StationHandler.handle: the handler of the chain, from h on, that
\* processes the item; None when the chain ends without one.
RECURSIVE station_handle(_, _)
station_handle(h, d) ==
    IF can_handle(h, d) THEN h
    ELSE IF next_handler(h) # None THEN station_handle(next_handler(h), d)
    ELSE None

\* KitchenRouter._get_handler_for_item: the handler whose get_priority
\* route_order uses.
get_handler_for_item(d) ==
    IF can_handle("hot_beverages", d) THEN "hot_beverages"
    ELSE IF can_handle("cold_beverages", d) THEN "cold_beverages"
    ELSE IF can_handle("bakery", d) THEN "bakery"
    ELSE IF can_handle("main_kitchen", d) THEN "main_kitchen"
    ELSE IF can_handle("dessert", d) THEN "dessert"
    ELSE "default"

\* Variant of StationHandler.process that inserts a queue row without
\* looking for an incomplete one.
process_always(h, q, c, st, o) ==
    LET t == get_station_type(h) IN
    IF h \notin c /\ ~st[t]
    THEN [station |-> None, queue |-> q, cache |-> c]
    ELSE [station |-> t,
          queue |-> PutQueue(q, t, o, [QueueOf(q, t, o) EXCEPT !.pending = @ + 1]),
          cache |-> c \cup {h}]

\* StationHandler.process on the queues q, by a handler of a router whose
\* handlers in c hold a station (self._station) from an earlier call; st
\* gives is_active of the station of each type.  A handler that holds no
\* station fetches the active station of its type, and returns None when
\* there is none (KitchenStation.DoesNotExist); it inserts a queue row
\* unless the station has an incomplete row of the order.
process(h, q, c, st, o) ==
    LET t == get_station_type(h) IN
    IF h \notin c /\ ~st[t]
    THEN [station |-> None, queue |-> q, cache |-> c]
    ELSE [station |-> t,
          queue |-> IF QueueOf(q, t, o).pending = 0
                    THEN PutQueue(q, t, o, [QueueOf(q, t, o) EXCEPT !.pending = 1])
                    ELSE q,
          cache |-> c \cup {h}]

\* Variant of the sort of route_order that puts the lowest priority first.
insert_ascending(sorted, x) ==
    LET n == Cardinality({i \in 1..Len(sorted) : sorted[i].priority <= x.priority})
    IN SubSeq(sorted, 1, n) \o <<x>> \o SubSeq(sorted, n + 1, Len(sorted))

\* One step of list.sort(reverse=True, key=priority), which is stable: x
\* goes behind the entries of the same or a higher priority.
insert_by_priority(sorted, x) ==
    LET n == Cardinality({i \in 1..Len(sorted) : sorted[i].priority >= x.priority})
    IN SubSeq(sorted, 1, n) \o <<x>> \o SubSeq(sorted, n + 1, Len(sorted))

RECURSIVE sort_by_priority(_)
sort_by_priority(seq) ==
    IF seq = <<>> THEN <<>>
    ELSE insert_by_priority(sort_by_priority(SubSeq(seq, 1, Len(seq) - 1)),
                            seq[Len(seq)])

\* order.items.all() as a list: the lines of the order by id.
RECURSIVE ItemList(_, _)
ItemList(it, ls) ==
    IF ls = {} THEN <<>>
    ELSE LET l == CHOOSE x \in ls : \A y \in ls : x <= y
         IN <<l>> \o ItemList(it, ls \ {l})

\* The first loop of route_order: the priority of each line, by the
\* handler _get_handler_for_item finds for it.
items_by_priority(S, o) ==
    LET ls == ItemList(S.items, ItemsOf(S.items, o)) IN
    [i \in 1..Len(ls) |->
        LET d == Catalog[S.items[ls[i]].product]
        IN [priority |-> get_priority(get_handler_for_item(d), d), line |-> ls[i]]]

\* The second loop of route_order: each line, in the sorted order, goes
\* through the chain; a line for which the chain returns a station is
\* added to the assignments of that station.
RECURSIVE route_items(_, _, _, _, _, _, _)
route_items(seq, S, q, c, st, o, assigned) ==
    IF seq = <<>> THEN [assigned |-> assigned, queue |-> q, cache |-> c]
    ELSE LET x == seq[1]
             h == station_handle(first_handler, Catalog[S.items[x.line].product])
             r == IF h = None THEN [station |-> None, queue |-> q, cache |-> c]
                  ELSE process(h, q, c, st, o)
         IN route_items(Tail(seq), S, r.queue, r.cache, st, o,
                        IF r.station = None THEN assigned
                        ELSE Append(assigned, [station |-> r.station, line |-> x.line,
                                               priority |-> x.priority]))

\* KitchenRouter.route_order(order) by a router whose handlers in c hold a
\* station.  assigned lists the entries of the returned assignments in the
\* order in which they were added.
route_order(S, c, st, o) ==
    route_items(sort_by_priority(items_by_priority(S, o)), S, S.queue, c, st, o, <<>>)

\* The assignments route_order returns: for each station with an entry,
\* the lines listed under it.
assignments(assigned) ==
    [t \in {assigned[i].station : i \in 1..Len(assigned)} |->
        LET under == SelectSeq(assigned, LAMBDA a : a.station = t)
        IN [i \in 1..Len(under) |-> under[i].line]]

\* StationQueue.objects.filter(order_id=order_id, is_completed=False).count()
RECURSIVE CountPending(_, _, _)
CountPending(q, o, ts) ==
    IF ts = {} THEN 0
    ELSE LET t == CHOOSE x \in ts : TRUE
         IN QueueOf(q, t, o).pending + CountPending(q, o, ts \ {t})

\* KitchenRouter._check_order_completion: with no incomplete row left, an
\* EN_PREPARACION order is advanced; what advance_order raises is not
\* caught.
check_order_completion(S, mm, o) ==
    IF CountPending(S.queue, o, STATION_TYPES) = 0
       /\ S.orders[o].exists
       /\ S.orders[o].status = "EN_PREPARACION"
    THEN advance_order(S, mm, o)
    ELSE [res |-> "ok", S |-> S, mm |-> mm]

\* KitchenRouter.complete_station_item(station_type, order_id): False when
\* the station has no incomplete row of the order; with one such row, the
\* row is marked completed and the completion of the order is checked
\* (res is True, or the exception raised by advance_order).
complete_station_item(S, mm, t, o) ==
    LET row == QueueOf(S.queue, t, o) IN
    IF row.pending = 0 THEN [res |-> "False", S |-> S, mm |-> mm]
    ELSE IF row.pending > 1
    THEN [res |-> "MultipleObjectsReturned", S |-> S, mm |-> mm]
    ELSE LET S1 == [S EXCEPT !.queue = PutQueue(S.queue, t, o,
                                          [pending |-> 0, completed |-> TRUE])]
             r == check_order_completion(S1, mm, o)
         IN [res |-> IF r.res = "ok" THEN "True" ELSE r.res, S |-> r.S, mm |-> r.mm]

\* --------------------------------------------------------------- actions
\* The empty store and an empty command log; budget is the number of
\* requests (commands for the invoker, snapshot saves and restores) the
\* clients will still make.
InitRows ==
    /\ orders = [o \in OrderIds |-> NoOrder]
    /\ items = [l \in LineIds |-> NoItem]
    /\ nextOrderId = 1
    /\ nextItemId = 1
    /\ clock = 1
    /\ history = <<>>
    /\ current = -1
    /\ mementos = [o \in OrderIds |-> <<>>]
    /\ visited = [o \in OrderIds |-> {}]
    /\ trip = NoTrip
    /\ queue = [p \in {} |-> NoQueue]
    /\ stations = [t \in STATION_TYPES |-> TRUE]
    /\ cache = {}
    /\ saved = [o \in OrderIds |-> <<>>]
    /\ inflight = [r \in Requests |-> Idle]
    /\ notif = NoNotif
    /\ available_extras = AvailableExtras

Init ==
    /\ InitRows
    /\ budget = MaxRequests
    /\ max_snapshots_per_order = MaxSnapshots

\* OrderStateManager.advance_order(order)
Advance(o) ==
    /\ orders[o].exists
    /\ LET r == advance_order(Store, mementos, o) IN
         /\ Fits(r.S)
         /\ Apply(r.S)
         /\ mementos' = r.mm
         /\ Track(r.S)
    /\ trip' = NoTrip
    /\ UNCHANGED <<history, current, budget, stations, cache, saved,
                   max_snapshots_per_order, inflight, notif,
                   available_extras>>

\* OrderStateManager.cancel_order(order)
Cancel(o) ==
    /\ orders[o].exists
    /\ LET r == cancel_order(Store, mementos, o) IN
         /\ Apply(r.S)
         /\ mementos' = r.mm
         /\ Track(r.S)
    /\ trip' = NoTrip
    /\ UNCHANGED <<history, current, budget, stations, cache, saved,
                   max_snapshots_per_order, inflight, notif,
                   available_extras>>

\* Tags under which callers save and restore snapshots.
SaveTags == {"initial"}
RestoreTags == SaveTags \cup {"pending", "delivered", "cancelled"}

\* OrderCaretaker.save(order, tag)
Save(o, tag) ==
    /\ orders[o].exists
    /\ budget > 0
    /\ budget' = budget - 1
    /\ mementos' = caretaker_save(mementos, Store, o, tag)
    /\ saved' = [saved EXCEPT ![o] = <<tag, orders[o].status, orders[o].total_price>>]
    /\ trip' = NoTrip
    /\ UNCHANGED <<orders, items, nextOrderId, nextItemId, clock, history,
                   current, visited, queue, stations, cache,
                   max_snapshots_per_order, inflight, notif,
                   available_extras>>

\* Variant of OrderCaretaker.restore that does not verify the checksum.
caretaker_restore_unchecked(mm, S, o, tag) ==
    LET i == FindTag(mm[o], tag) IN
    IF i = 0 THEN [res |-> "None", S |-> S]
    ELSE [res |-> "ok", S |-> restore_from_memento(S, o, mm[o][i])]

\* OrderCaretaker.restore(order, tag): None when the order has no snapshot
\* under the tag.
caretaker_restore(mm, S, o, tag) ==
    LET i == FindTag(mm[o], tag) IN
    IF i = 0 THEN [res |-> "None", S |-> S]
    ELSE IF ~is_valid(mm[o][i]) THEN [res |-> "ValueError", S |-> S]
    ELSE [res |-> "ok", S |-> restore_from_memento(S, o, mm[o][i])]

Restore(o, tag) ==
    /\ orders[o].exists
    /\ LET r == caretaker_restore(mementos, Store, o, tag) IN
         /\ Apply(r.S)
         /\ Track(r.S)
    /\ budget > 0
    /\ budget' = budget - 1
    /\ trip' = NoTrip
    /\ UNCHANGED <<history, current, mementos, stations, cache, saved,
                   max_snapshots_per_order, inflight, notif,
                   available_extras>>

\* Variant of invoker_append that keeps the commands beyond the cursor.
invoker_append_keep(h, c, cmd) ==
    LET app == SubSeq(h, 1, c + 1) \o <<cmd>> \o SubSeq(h, c + 2, Len(h))
        over == Len(app) > MaxHistory
    IN [history |-> IF over THEN Tail(app) ELSE app,
        current |-> IF over THEN c ELSE c + 1]

\* Variant of invoker_append that drops the newest command instead of the
\* oldest beyond max_history.
invoker_append_newest(h, c, cmd) ==
    LET app == Append(SubSeq(h, 1, c + 1), cmd)
        over == Len(app) > MaxHistory
    IN [history |-> IF over THEN SubSeq(app, 1, MaxHistory) ELSE app,
        current |-> IF over THEN c ELSE c + 1]

\* The history and cursor CommandInvoker.execute_command leaves after a
\* successful execute(): the history is cut after the cursor, the command
\* appended, the cursor moved to it, and the oldest command dropped beyond
\* max_history.
invoker_append(h, c, cmd) ==
    LET app == Append(SubSeq(h, 1, c + 1), cmd)
        over == Len(app) > MaxHistory
    IN [history |-> IF over THEN Tail(app) ELSE app,
        current |-> IF over THEN c ELSE c + 1]

\* CommandInvoker.execute_command: an exception of execute() leaves
\* history and cursor as they were.
execute_command(cmd) ==
    LET r == Execute(cmd, Store)
        a == invoker_append(history, current, r.cmd)
    IN
      /\ budget > 0
      /\ budget' = budget - 1
      /\ Fits(r.S)
      /\ Apply(r.S)
      /\ Track(r.S)
      /\ IF r.res = "ok"
         THEN /\ history' = a.history
              /\ current' = a.current
              /\ trip' = IF Len(history) >= 1
                         THEN [phase |-> 1, obs |-> Observable(r.S, r.cmd.order)]
                         ELSE NoTrip
         ELSE /\ UNCHANGED <<history, current>>
              /\ trip' = NoTrip
      /\ UNCHANGED <<mementos, stations, cache, saved,
                   max_snapshots_per_order, inflight, notif,
                   available_extras>>

\* The item of a one-line order: one coffee, no extras.
PlainItem == <<1, 1, FALSE>>

ExecCreateOrder(its) == execute_command(CreateOrderCommand(its))

ExecUpdateOrderStatus(o, s) ==
    /\ orders[o].exists
    /\ execute_command(UpdateOrderStatusCommand(o, s))

ExecCancelOrder(o) ==
    /\ orders[o].exists
    /\ execute_command(CancelOrderCommand(o))

ExecAddItem(o, p, q, e) ==
    /\ orders[o].exists
    /\ execute_command(AddItemCommand(o, p, q, e))

ExecRemoveItem(o, l) ==
    /\ orders[o].exists
    /\ execute_command(RemoveItemCommand(o, l))

ExecUpdateItemQuantity(o, l, q) ==
    /\ orders[o].exists
    /\ execute_command(UpdateItemQuantityCommand(o, l, q))

\* CommandInvoker.undo: False when the cursor is before the first command
\* or the command at the cursor cannot be undone; otherwise command.undo()
\* runs, and the cursor moves back once it has returned.  res is the value
\* returned, or the exception raised by command.undo().
invoker_undo(h, c, S) ==
    IF c >= 0 /\ can_undo(h[c + 1])
    THEN LET r == UndoCommand(h[c + 1], S)
         IN [res |-> IF r.res = "ok" THEN "True" ELSE r.res,
             history |-> [h EXCEPT ![c + 1] = r.cmd],
             current |-> IF r.res = "ok" THEN c - 1 ELSE c,
             S |-> r.S]
    ELSE [res |-> "False", history |-> h, current |-> c, S |-> S]

\* Variant of CommandInvoker.redo that, with the cursor at the end, runs
\* the command at the cursor once more.
invoker_redo_again(h, c, S) ==
    LET i == IF c < Len(h) - 1 THEN c + 2 ELSE c + 1 IN
    IF i >= 1
    THEN LET r == Execute(h[i], S)
         IN [res |-> IF r.res = "ok" THEN "True" ELSE r.res,
             history |-> [h EXCEPT ![i] = r.cmd],
             current |-> i - 1,
             S |-> r.S]
    ELSE [res |-> "False", history |-> h, current |-> c, S |-> S]

\* CommandInvoker.redo: False when the cursor is at the end; otherwise the
\* cursor moves first, then the command at the cursor is executed again.
\* res is the value returned, or the exception raised by command.execute().
invoker_redo(h, c, S) ==
    IF c < Len(h) - 1
    THEN LET r == Execute(h[c + 2], S)
         IN [res |-> IF r.res = "ok" THEN "True" ELSE r.res,
             history |-> [h EXCEPT ![c + 2] = r.cmd],
             current |-> c + 1,
             S |-> r.S]
    ELSE [res |-> "False", history |-> h, current |-> c, S |-> S]

\* A call of CommandInvoker.undo.
Undo ==
    LET r == invoker_undo(history, current, Store) IN
      /\ Fits(r.S)
      /\ Apply(r.S)
      /\ Track(r.S)
      /\ history' = r.history
      /\ current' = r.current
      /\ trip' = IF trip.phase = 1 /\ r.res = "True"
                 THEN [trip EXCEPT !.phase = 2] ELSE NoTrip
      /\ UNCHANGED <<mementos, budget, stations, cache, saved,
                   max_snapshots_per_order, inflight, notif,
                   available_extras>>

\* A call of CommandInvoker.redo.
Redo ==
    LET r == invoker_redo(history, current, Store) IN
      /\ Fits(r.S)
      /\ Apply(r.S)
      /\ Track(r.S)
      /\ history' = r.history
      /\ current' = r.current
      /\ trip' = IF trip.phase = 2 /\ r.res # "False"
                 THEN [phase |-> 3, obs |-> trip.obs,
                       res |-> IF r.res = "True" THEN "ok" ELSE r.res]
                 ELSE NoTrip
      /\ UNCHANGED <<mementos, budget, stations, cache, saved,
                   max_snapshots_per_order, inflight, notif,
                   available_extras>>

\* CommandInvoker.clear_history
ClearHistory ==
    /\ history' = <<>>
    /\ current' = -1
    /\ trip' = NoTrip
    /\ UNCHANGED <<orders, items, nextOrderId, nextItemId, clock, budget,
                   mementos, visited, queue, stations, cache, saved,
                   max_snapshots_per_order, inflight, notif,
                   available_extras>>

\* Every operation: the state machine, the snapshot store and the six
\* commands, on empty and one-line orders.
Next ==
    \/ \E o \in OrderIds : Advance(o)
    \/ \E o \in OrderIds : Cancel(o)
    \/ \E o \in OrderIds, tag \in SaveTags : Save(o, tag)
    \/ \E o \in OrderIds, tag \in RestoreTags : Restore(o, tag)
    \/ \E its \in {<<>>, <<PlainItem>>} : ExecCreateOrder(its)
    \/ \E o \in OrderIds, s \in STATUS_CHOICES : ExecUpdateOrderStatus(o, s)
    \/ \E o \in OrderIds : ExecCancelOrder(o)
    \/ \E o \in OrderIds : ExecAddItem(o, PlainItem[1], PlainItem[2], PlainItem[3])
    \/ \E o \in OrderIds, l \in LineIds : ExecRemoveItem(o, l)
    \/ \E o \in OrderIds, l \in LineIds, q \in Quantities : ExecUpdateItemQuantity(o, l, q)
    \/ Undo
    \/ Redo

Spec == Init /\ [][Next]_vars

\* The lifecycle: the state machine and the status commands.
NextLife ==
    \/ \E o \in OrderIds : Advance(o)
    \/ \E o \in OrderIds : Cancel(o)
    \/ \E its \in {<<>>, <<PlainItem>>} : ExecCreateOrder(its)
    \/ \E o \in OrderIds, s \in STATUS_CHOICES : ExecUpdateOrderStatus(o, s)
    \/ \E o \in OrderIds : ExecCancelOrder(o)
    \/ Undo
    \/ Redo

SpecLife == Init /\ [][NextLife]_vars

\* Editing: the line commands, with the state machine moving the order
\* out of the editable state.
NextEdit ==
    \/ \E o \in OrderIds : Advance(o)
    \/ \E o \in OrderIds : Cancel(o)
    \/ \E its \in {<<>>, <<PlainItem>>} : ExecCreateOrder(its)
    \/ \E o \in OrderIds, p \in Products, q \in Quantities, e \in ExtrasChoices :
          ExecAddItem(o, p, q, e)
    \/ \E o \in OrderIds, l \in LineIds : ExecRemoveItem(o, l)
    \/ \E o \in OrderIds, l \in LineIds, q \in Quantities : ExecUpdateItemQuantity(o, l, q)
    \/ Undo
    \/ Redo

SpecEdit == Init /\ [][NextEdit]_vars

\* The command log alone: enough requests to fill the history beyond
\* max_history.
InitLog ==
    /\ InitRows
    /\ budget = MaxHistory + 1
    /\ max_snapshots_per_order = MaxSnapshots

NextLog ==
    \/ \E its \in {<<>>, <<PlainItem>>} : ExecCreateOrder(its)
    \/ \E o \in OrderIds : ExecCancelOrder(o)
    \/ \E o \in OrderIds, l \in LineIds : ExecRemoveItem(o, l)
    \/ Undo
    \/ Redo
    \/ ClearHistory

SpecLog == InitLog /\ [][NextLog]_vars

\* The snapshot store with the state machine: a caretaker that keeps one
\* snapshot more, and enough requests to create an order, save it twice
\* and restore it.
InitSnap ==
    /\ InitRows
    /\ budget = MaxRequests + 2
    /\ max_snapshots_per_order = MaxSnapshots + 1

NextSnap ==
    \/ ExecCreateOrder(<<PlainItem>>)
    \/ \E o \in OrderIds : Advance(o)
    \/ \E o \in OrderIds : Cancel(o)
    \/ \E o \in OrderIds, tag \in SaveTags : Save(o, tag)
    \/ \E o \in OrderIds, tag \in SaveTags : Restore(o, tag)

SpecSnap == InitSnap /\ [][NextSnap]_vars

\* The prices the catalog may ask for an extra.
ExtraPrices == {50, 70}

\* A coffee with milk.
MilkItem == <<1, 1, TRUE>>

\* The price of the extra of a product is edited in the catalog
\* (ProductAdmin change form; available_extras is a field of Product).
SetExtraPrice(p, price) ==
    /\ AvailableExtras[p] # 0
    /\ available_extras[p] # price
    /\ available_extras' = [available_extras EXCEPT ![p] = price]
    /\ trip' = NoTrip
    /\ UNCHANGED <<orders, items, nextOrderId, nextItemId, clock, history,
                   current, budget, mementos, visited, queue, stations, cache,
                   saved, max_snapshots_per_order, inflight, notif>>

\* Line edits while the catalog changes its prices.
NextCatalog ==
    \/ \E its \in {<<PlainItem>>, <<MilkItem>>} : ExecCreateOrder(its)
    \/ \E o \in OrderIds, e \in ExtrasChoices :
          ExecAddItem(o, PlainItem[1], PlainItem[2], e)
    \/ \E o \in OrderIds, l \in LineIds : ExecRemoveItem(o, l)
    \/ \E o \in OrderIds, l \in LineIds, q \in Quantities : ExecUpdateItemQuantity(o, l, q)
    \/ \E p \in Products, price \in ExtraPrices : SetExtraPrice(p, price)
    \/ Undo

SpecCatalog == Init /\ [][NextCatalog]_vars

\* CafeteriaFacade.editar_orden(order_id, new_instructions=text): refused
\* unless the state of the order can be edited; a snapshot is saved under
\* 'before_edit', the instructions are written, the total is recomputed,
\* and NotificationService.notify_order_modified raises AttributeError
\* (cls._subject is None), which ends the call before the snapshot
\* 'after_edit'.
editar_orden(S, mm, o, text) ==
    IF ~state_can_edit(get_state(S.orders[o].status))
    THEN [res |-> "error", S |-> S, mm |-> mm]
    ELSE [res |-> "error",
          S |-> calculate_total([S EXCEPT !.orders[o].special_instructions = text], o),
          mm |-> caretaker_save(mm, S, o, "before_edit")]

EditarOrden(o, text) ==
    /\ orders[o].exists
    /\ budget > 0
    /\ budget' = budget - 1
    /\ LET r == editar_orden(Store, mementos, o, text) IN
         /\ Apply(r.S)
         /\ Track(r.S)
         /\ mementos' = r.mm
    /\ trip' = NoTrip
    /\ UNCHANGED <<history, current, stations, cache, saved,
                   max_snapshots_per_order, inflight, notif, available_extras>>

\* The tags of the snapshots that are restored after an edit.
EditTags == SaveTags \cup {"before_edit"}

\* The facade's edit of the instructions next to the snapshot store and
\* the line commands.
NextMeta ==
    \/ \E its \in {<<>>, <<PlainItem>>} : ExecCreateOrder(its)
    \/ \E o \in OrderIds : ExecAddItem(o, PlainItem[1], PlainItem[2], PlainItem[3])
    \/ \E o \in OrderIds, l \in LineIds : ExecRemoveItem(o, l)
    \/ \E o \in OrderIds, text \in Instructions : EditarOrden(o, text)
    \/ \E o \in OrderIds : Cancel(o)
    \/ \E o \in OrderIds, tag \in SaveTags : Save(o, tag)
    \/ \E o \in OrderIds, tag \in EditTags : Restore(o, tag)

SpecMeta == InitSnap /\ [][NextMeta]_vars

\* Line edits next to the snapshot store: an order is created, saved,
\* edited through the invoker (coffees with and without milk) and
\* restored.
NextRevert ==
    \/ \E its \in {<<>>, <<PlainItem>>} : ExecCreateOrder(its)
    \/ \E o \in OrderIds, e \in ExtrasChoices :
          ExecAddItem(o, PlainItem[1], PlainItem[2], e)
    \/ \E o \in OrderIds, l \in LineIds : ExecRemoveItem(o, l)
    \/ \E o \in OrderIds, tag \in SaveTags : Save(o, tag)
    \/ \E o \in OrderIds, tag \in SaveTags : Restore(o, tag)
    \/ Undo

SpecRevert == InitSnap /\ [][NextRevert]_vars

\* The fields of an OrderMemento are plain attributes: a write to _status
\* or _total_price of a stored memento leaves its _checksum as computed at
\* creation.  A write spends one request.
TamperedTotals == {0, 250}

Tamper(o, i, status, total) ==
    /\ i \in 1..Len(mementos[o])
    /\ is_valid(mementos[o][i])
    /\ <<status, total>> # <<mementos[o][i].status, mementos[o][i].total_price>>
    /\ budget > 0
    /\ budget' = budget - 1
    /\ mementos' = [mementos EXCEPT ![o][i].status = status,
                                    ![o][i].total_price = total]
    /\ trip' = NoTrip
    /\ UNCHANGED <<orders, items, nextOrderId, nextItemId, clock, history,
                   current, visited, queue, stations, cache, saved,
                   max_snapshots_per_order, inflight, notif,
                   available_extras>>

\* The snapshot store whose mementos are written to after their creation.
NextTamper ==
    \/ ExecCreateOrder(<<PlainItem>>)
    \/ \E o \in OrderIds : Cancel(o)
    \/ \E o \in OrderIds, tag \in SaveTags : Save(o, tag)
    \/ \E o \in OrderIds, tag \in RestoreTags : Restore(o, tag)
    \/ \E o \in OrderIds, i \in 1..(MaxSnapshots + 1), status \in STATUS_CHOICES,
          total \in TamperedTotals : Tamper(o, i, status, total)

SpecTamper == InitSnap /\ [][NextTamper]_vars

\* The tag of the snapshot OrderService.advance_order saves before it
\* advances: f"before_{order.status}".
BeforeTag(status) ==
    CASE status = "PENDIENTE" -> "before_PENDIENTE"
      [] status = "EN_PREPARACION" -> "before_EN_PREPARACION"
      [] status = "LISTO" -> "before_LISTO"
      [] status = "ENTREGADO" -> "before_ENTREGADO"
      [] status = "CANCELADO" -> "before_CANCELADO"

\* The store as a request sees it through its Order instance: the fields
\* of the order are those of the instance, everything else is read from
\* the database.
Through(S, o, row) == [S EXCEPT !.orders[o] = row]

\* What a call on the instance leaves in the database: Model.save() writes
\* every field of the instance, so the row becomes the instance; a call
\* that has not saved leaves the row as it is.
Written(S, o, row, R) == IF R = Through(S, o, row) THEN S ELSE R

\* OrderService.advance_order(order_id), first step:
\* Order.objects.get(id=order_id).
GetOrder(r, o) ==
    /\ inflight[r].pc = "idle"
    /\ orders[o].exists
    /\ budget > 0
    /\ budget' = budget - 1
    /\ inflight' = [inflight EXCEPT ![r] = [pc |-> "got", order |-> o, row |-> orders[o]]]
    /\ trip' = NoTrip
    /\ UNCHANGED <<orders, items, nextOrderId, nextItemId, clock, history,
                   current, mementos, visited, queue, stations, cache, saved,
                   max_snapshots_per_order, notif,
                   available_extras>>

\* OrderService.advance_order, second step: caretaker.save(order,
\* tag=f"before_{order.status}") on the instance.
SaveBefore(r) ==
    /\ inflight[r].pc = "got"
    /\ LET o == inflight[r].order
           row == inflight[r].row
       IN mementos' = caretaker_save(mementos, Through(Store, o, row), o,
                                     BeforeTag(row.status))
    /\ inflight' = [inflight EXCEPT ![r].pc = "saved"]
    /\ trip' = NoTrip
    /\ UNCHANGED <<orders, items, nextOrderId, nextItemId, clock, history,
                   current, budget, visited, queue, stations, cache, saved,
                   max_snapshots_per_order, notif,
                   available_extras>>

\* OrderService.advance_order, third step:
\* OrderStateManager.advance_order(order) on the instance.
AdvanceGot(r) ==
    /\ inflight[r].pc = "saved"
    /\ LET o == inflight[r].order
           row == inflight[r].row
           a == advance_order(Through(Store, o, row), mementos, o)
           S1 == Written(Store, o, row, a.S)
       IN /\ Fits(S1)
          /\ Apply(S1)
          /\ mementos' = a.mm
          /\ Track(S1)
    /\ inflight' = [inflight EXCEPT ![r] = Idle]
    /\ trip' = NoTrip
    /\ UNCHANGED <<history, current, budget, stations, cache, saved,
                   max_snapshots_per_order, notif,
                   available_extras>>

\* Two workers serve advance requests on the orders, which the state
\* manager also advances in one step.
NextWorkers ==
    \/ ExecCreateOrder(<<PlainItem>>)
    \/ \E o \in OrderIds : Advance(o)
    \/ \E r \in Requests, o \in OrderIds : GetOrder(r, o)
    \/ \E r \in Requests : SaveBefore(r)
    \/ \E r \in Requests : AdvanceGot(r)

SpecWorkers == InitSnap /\ [][NextWorkers]_vars

\* ------------------------------------------------- notification service
\* CustomerObserver.update returns without a notification for an event
\* outside its relevant_events; the other observers take every event.
relevant(x, event) ==
    x \in {"customer", "other"} => event \in {"ORDER_READY", "ORDER_DELIVERED",
                                 "ORDER_CANCELLED", "ORDER_DELAYED"}

\* observer.update(subject, event, data): the notification is appended to
\* the list of the observer; the update of a broken observer raises.
update(n, x, event) ==
    IF x \in n.broken THEN [res |-> "Exception", n |-> n]
    ELSE IF ~relevant(x, event) THEN [res |-> "ok", n |-> n]
    ELSE [res |-> "ok", n |-> [n EXCEPT !.inbox[x] = Append(@, event)]]

\* The loop of Subject.notify from the i-th observer on: the exception of
\* an update() is caught and the loop goes on.
RECURSIVE notify_from(_, _, _)
notify_from(n, i, event) ==
    IF i > Len(n.observers) THEN n
    ELSE notify_from(update(n, n.observers[i], event).n, i + 1, event)

\* Subject.notify(event, data).
subject_notify(n, event) == [res |-> "ok", n |-> notify_from(n, 1, event)]

\* Subject.attach(observer).
subject_attach(n, x) ==
    IF \E i \in 1..Len(n.observers) : n.observers[i] = x THEN n
    ELSE [n EXCEPT !.observers = Append(@, x)]

\* NotificationService.register_waiter / register_customer: the observer is
\* entered in the dictionary of the class, then cls._subject.attach is
\* called.  cls._subject is the class attribute, which stays None
\* (_initialize assigns the subject to the instance): the call raises
\* AttributeError when the observer is new.
register(n, x) ==
    LET key == IF x = "waiter" THEN "waiters" ELSE "customers" IN
    IF x \in n[key] THEN [res |-> "ok", n |-> n]
    ELSE [res |-> "AttributeError", n |-> [n EXCEPT ![key] = @ \cup {x}]]

\* Variant of notify_order_ready in which cls._subject is the subject of
\* the service instance: without a registered assigned waiter the event
\* goes to every attached observer.
notify_order_ready_broadcast(n, assigned) ==
    LET first == IF assigned /\ "waiter" \in n.waiters
                 THEN update(n, "waiter", "ORDER_READY")
                 ELSE subject_notify(n, "ORDER_READY")
    IN IF first.res # "ok" THEN first
       ELSE IF "customer" \in first.n.customers
       THEN update(first.n, "customer", "ORDER_READY")
       ELSE first

\* NotificationService.notify_order_ready(order) for an order whose mesero
\* is the waiter (assigned) or None: the observer of a registered assigned
\* waiter is updated, otherwise cls._subject.notify is called on None;
\* then the observer of a registered customer is updated.  No exception is
\* caught.
notify_order_ready(n, assigned) ==
    LET first == IF assigned /\ "waiter" \in n.waiters
                 THEN update(n, "waiter", "ORDER_READY")
                 ELSE [res |-> "AttributeError", n |-> n]
    IN IF first.res # "ok" THEN first
       ELSE IF "customer" \in first.n.customers
       THEN update(first.n, "customer", "ORDER_READY")
       ELSE first

\* A call of register_waiter or register_customer.
Register(x) ==
    /\ x \in {"waiter", "customer", "other"}
    /\ notif' = register(notif, x).n
    /\ notif' # notif
    /\ trip' = NoTrip
    /\ UNCHANGED <<orders, items, nextOrderId, nextItemId, clock, history,
                   current, budget, mementos, visited, queue, stations, cache,
                   saved, max_snapshots_per_order, inflight,
                   available_extras>>

\* A call of attach on the subject of the service instance.
Attach(x) ==
    /\ notif' = subject_attach(notif, x)
    /\ notif' # notif
    /\ trip' = NoTrip
    /\ UNCHANGED <<orders, items, nextOrderId, nextItemId, clock, history,
                   current, budget, mementos, visited, queue, stations, cache,
                   saved, max_snapshots_per_order, inflight,
                   available_extras>>

\* The update() of an observer starts to raise.
Break(x) ==
    /\ x \notin notif.broken
    /\ notif' = [notif EXCEPT !.broken = @ \cup {x}]
    /\ trip' = NoTrip
    /\ UNCHANGED <<orders, items, nextOrderId, nextItemId, clock, history,
                   current, budget, mementos, visited, queue, stations, cache,
                   saved, max_snapshots_per_order, inflight,
                   available_extras>>

\* A call of notify on the subject of the service instance.
SubjectNotify(event) ==
    /\ budget > 0
    /\ budget' = budget - 1
    /\ notif' = subject_notify(notif, event).n
    /\ trip' = NoTrip
    /\ UNCHANGED <<orders, items, nextOrderId, nextItemId, clock, history,
                   current, mementos, visited, queue, stations, cache,
                   saved, max_snapshots_per_order, inflight,
                   available_extras>>

\* A call of NotificationService.notify_order_ready.
NotifyOrderReady(assigned) ==
    /\ budget > 0
    /\ budget' = budget - 1
    /\ notif' = notify_order_ready(notif, assigned).n
    /\ trip' = NoTrip
    /\ UNCHANGED <<orders, items, nextOrderId, nextItemId, clock, history,
                   current, mementos, visited, queue, stations, cache,
                   saved, max_snapshots_per_order, inflight,
                   available_extras>>

\* The notification service: observers are registered and attached, some
\* start to fail, events are sent.
NextNotify ==
    \/ \E x \in {"waiter", "customer"} : Register(x)
    \/ \E x \in Observers : Attach(x)
    \/ \E x \in Observers : Break(x)
    \/ \E event \in {"NEW_ORDER", "ORDER_READY"} : SubjectNotify(event)
    \/ \E assigned \in BOOLEAN : NotifyOrderReady(assigned)

SpecNotify == Init /\ [][NextNotify]_vars

\* ORDER_READY next to the customer of another order: waiters and
\* customers are registered and attached to the subject of the instance,
\* and orders with and without an assigned waiter become ready.
NextReady ==
    \/ \E x \in {"waiter", "customer", "other"} : Register(x)
    \/ \E x \in {"waiter", "customer", "other"} : Attach(x)
    \/ \E assigned \in BOOLEAN : NotifyOrderReady(assigned)

SpecReady == Init /\ [][NextReady]_vars

\* A call of route_order: by a router that lives on (shared), as the one
\* the facade holds, or by a new one, as get_kitchen_router() returns.
Route(o, shared) ==
    /\ orders[o].exists
    /\ LET r == route_order(Store, IF shared THEN cache ELSE {}, stations, o) IN
         /\ queue' = r.queue
         /\ cache' = IF shared THEN r.cache ELSE cache
    /\ trip' = NoTrip
    /\ UNCHANGED <<orders, items, nextOrderId, nextItemId, clock, history,
                   current, budget, mementos, visited, stations, saved,
                   max_snapshots_per_order, inflight, notif,
                   available_extras>>

\* A call of complete_station_item.
CompleteStationItem(t, o) ==
    /\ LET r == complete_station_item(Store, mementos, t, o) IN
         /\ Fits(r.S)
         /\ Apply(r.S)
         /\ mementos' = r.mm
         /\ Track(r.S)
    /\ trip' = NoTrip
    /\ UNCHANGED <<history, current, budget, stations, cache, saved,
                   max_snapshots_per_order, inflight, notif,
                   available_extras>>

\* The administrator sets is_active of the station of a type.
SetStationActive(t, b) ==
    /\ budget > 0
    /\ budget' = budget - 1
    /\ stations[t] # b
    /\ stations' = [stations EXCEPT ![t] = b]
    /\ trip' = NoTrip
    /\ UNCHANGED <<orders, items, nextOrderId, nextItemId, clock, history,
                   current, mementos, visited, queue, cache, saved,
                   max_snapshots_per_order, inflight, notif,
                   available_extras>>

\* The sandwich of a two-line order.
SandwichItem == <<2, 1, FALSE>>

\* The stations the catalog products are routed to.
CatalogStations == {get_station_type(get_handler_for_item(Catalog[p])) : p \in Products}

\* The kitchen: orders of one or two lines are routed, worked off by the
\* stations, advanced and cancelled, while lines are removed and stations
\* switched off and on.
NextKitchen ==
    \/ \E its \in {<<PlainItem>>, <<PlainItem, SandwichItem>>} : ExecCreateOrder(its)
    \/ \E o \in OrderIds, l \in LineIds : ExecRemoveItem(o, l)
    \/ \E o \in OrderIds : Advance(o)
    \/ \E o \in OrderIds : Cancel(o)
    \/ \E o \in OrderIds, shared \in BOOLEAN : Route(o, shared)
    \/ \E t \in CatalogStations, o \in OrderIds : CompleteStationItem(t, o)
    \/ \E t \in CatalogStations, b \in BOOLEAN : SetStationActive(t, b)

SpecKitchen == Init /\ [][NextKitchen]_vars

\* The kitchen at work: a station that has an incomplete row of an order
\* completes it in the end.  Requests of clients (create, remove, advance,
\* cancel, route) and of the administrator come or do not come.
SpecKitchenLive ==
    /\ Init
    /\ [][NextKitchen]_vars
    /\ \A t \in CatalogStations, o \in OrderIds : WF_vars(CompleteStationItem(t, o))

\* ----------------------------------------------------------------- claims
\* The forward transitions of the lifecycle.
AdvanceStep == {<<"PENDIENTE", "EN_PREPARACION">>, <<"EN_PREPARACION", "LISTO">>,
                <<"LISTO", "ENTREGADO">>}
CancelStep == {<<"PENDIENTE", "CANCELADO">>, <<"EN_PREPARACION", "CANCELADO">>}
LegalStep == AdvanceStep \cup CancelStep

HasTag(o, tag) == \E i \in 1..Len(mementos[o]) : mementos[o][i].tag = tag

Thm_C2 ==
    \A o \in OrderIds : orders[o].exists =>
        LET s == orders[o].status
            r == cancel_order(Store, mementos, o)
            c == CancelOrderExecute(CancelOrderCommand(o), Store)
        IN /\ r.res = "ok" <=> s \in {"PENDIENTE", "EN_PREPARACION"}
           /\ c.res = "ok" <=> s \in {"PENDIENTE", "EN_PREPARACION"}
           /\ r.res = "ok" => r.S.orders[o].status = "CANCELADO"
           /\ c.res = "ok" => c.S.orders[o].status = "CANCELADO"
           /\ s \in {"LISTO", "ENTREGADO", "CANCELADO"} =>
                 r.S = Store /\ r.mm = mementos /\ c.S = Store

\* C2 witness: an order cancelled by cancel_order (snapshot 'cancelled')
\* after a CancelOrder command on it was executed and undone.
Wit_C2 ==
    \E o \in OrderIds :
        /\ orders[o].exists
        /\ orders[o].status = "CANCELADO"
        /\ HasTag(o, "cancelled")
        /\ \E i \in 1..Len(history) :
              history[i].kind = "CancelOrder" /\ history[i].order = o /\ history[i].undone

\* C3: advance_order on a PENDIENTE order without lines fails and leaves
\* the status PENDIENTE.
Cex_C3 ==
    \A o \in OrderIds :
        (orders[o].exists /\ orders[o].status = "PENDIENTE" /\ ItemsOf(items, o) = {}) =>
            LET r == advance_order(Store, mementos, o)
            IN r.res = "PreconditionFailed" /\ r.S.orders[o].status = "PENDIENTE"

\* The capability table of the lifecycle states: can advance, can cancel,
\* can edit, next state.
CapabilityTable(s) ==
    CASE s = "PENDIENTE" -> <<TRUE, TRUE, TRUE, "EN_PREPARACION">>
      [] s = "EN_PREPARACION" -> <<TRUE, TRUE, FALSE, "LISTO">>
      [] s = "LISTO" -> <<TRUE, FALSE, FALSE, "ENTREGADO">>
      [] s = "ENTREGADO" -> <<FALSE, FALSE, FALSE, None>>
      [] s = "CANCELADO" -> <<FALSE, FALSE, FALSE, None>>

\* C4: for every order, get_state_info reports the capabilities and the
\* next state the capability table gives for the order's status.
Thm_C4 ==
    \A o \in OrderIds : orders[o].exists =>
        LET info == get_state_info(o) IN
        /\ info.current_state = orders[o].status
        /\ <<info.can_advance, info.can_cancel, info.can_edit, info.next_state>>
              = CapabilityTable(orders[o].status)

\* C4 witness: an order that has been in each of the five states.
Wit_C4 == \E o \in OrderIds : orders[o].exists /\ visited[o] = STATUS_CHOICES

\* The step is an undo of a command of one of the kinds.
UndoOf(kinds) ==
    /\ current >= 0
    /\ can_undo(history[current + 1])
    /\ history[current + 1].kind \in kinds
    /\ Undo

\* The step is a redo of a command of one of the kinds.
RedoOf(kinds) ==
    /\ current < Len(history) - 1
    /\ history[current + 2].kind \in kinds
    /\ Redo

Cex_C6 ==
    \A o \in OrderIds, target \in STATUS_CHOICES :
        (orders[o].exists /\ <<orders[o].status, target>> \notin LegalStep) =>
            LET r == UpdateOrderStatusExecute(UpdateOrderStatusCommand(o, target), Store)
            IN r.res # "ok" /\ r.S.orders[o].status = orders[o].status

\* C7: the total price of every order equals the sum over its lines of
\* (unit price + extras price) x quantity, the subtotal of the line.
Thm_C7 ==
    \A o \in OrderIds : orders[o].exists =>
        /\ orders[o].total_price = SumSubtotals(items, ItemsOf(items, o))
        /\ \A l \in ItemsOf(items, o) :
              items[l].subtotal =
                  (items[l].unit_price + items[l].extras_price) * items[l].quantity

\* C7 witness: an order with lines and a positive total after a RemoveItem
\* command was executed and undone.
Wit_C7 ==
    \E o \in OrderIds :
        /\ orders[o].exists
        /\ ItemsOf(items, o) # {}
        /\ orders[o].total_price > 0
        /\ \E i \in 1..Len(history) :
              history[i].kind = "RemoveItem" /\ history[i].order = o /\ history[i].undone

\* C8: on an order that is not PENDIENTE, the execute() of AddItem,
\* RemoveItem and UpdateItemQuantity fails and changes nothing, whatever
\* product, line and quantity it names.
Thm_C8 ==
    \A o \in OrderIds : (orders[o].exists /\ orders[o].status # "PENDIENTE") =>
        /\ \A p \in Products, q \in Quantities, e \in ExtrasChoices :
              LET r == AddItemExecute(AddItemCommand(o, p, q, e), Store)
              IN r.res # "ok" /\ r.S = Store
        /\ \A l \in LineIds :
              LET r == RemoveItemExecute(RemoveItemCommand(o, l), Store)
              IN r.res # "ok" /\ r.S = Store
        /\ \A l \in LineIds, q \in Quantities :
              LET r == UpdateItemQuantityExecute(UpdateItemQuantityCommand(o, l, q), Store)
              IN r.res # "ok" /\ r.S = Store

\* C8 witness: an order with a line that has left PENDIENTE while the
\* invoker still receives commands.
Wit_C8 ==
    \E o \in OrderIds :
        /\ orders[o].exists
        /\ orders[o].status = "EN_PREPARACION"
        /\ ItemsOf(items, o) # {}
        /\ budget > 0

\* C9: in a step that starts with the order outside PENDIENTE, the set of
\* lines of the order does not change.
Cex_C9 ==
    [][\A o \in OrderIds :
          (orders[o].exists /\ orders'[o].exists /\ orders[o].status # "PENDIENTE")
          => ItemsOf(items', o) = ItemsOf(items, o)]_vars

\* C10: after execute(C1); execute(C2); undo(); redo() the redo has
\* succeeded and the order of C2 shows the status, lines and total it
\* showed after execute(C2).
Cex_C10 ==
    trip.phase = 3 =>
        /\ trip.res = "ok"
        /\ Observable(Store, history[current + 1].order) = trip.obs

\* The step is a call of execute_command whose command has executed: it
\* has changed the history, the cursor or the store.
Executed ==
    /\ budget' < budget
    /\ <<history', current', Store'>> # <<history, current, Store>>

\* C11: when a command is executed while undone commands lie beyond the
\* cursor, those commands are dropped from the history: the history
\* becomes the commands up to the cursor followed by the new command, the
\* cursor designates the new command, a following redo() has nothing to
\* execute, and undo() followed by redo() runs the new command.
Thm_C11 ==
    [][(Executed /\ current < Len(history) - 1) =>
          /\ Len(history') = current + 2
          /\ SubSeq(history', 1, current + 1) = SubSeq(history, 1, current + 1)
          /\ current' = current + 1
          /\ can_undo(history'[current' + 1])
          /\ invoker_redo(history', current', Store').res = "False"
          /\ LET u == invoker_undo(history', current', Store') IN
               u.res = "True" =>
                  /\ u.current = current
                  /\ u.history[u.current + 2].kind = history'[current' + 1].kind
                  /\ Len(u.history) = u.current + 2]_vars

\* C11 witness: the line of an order was removed and restored by undo (the
\* restored line has a new id), then the order was cancelled by a command:
\* the history holds the creation and the cancellation only.
Wit_C11 ==
    \E o \in OrderIds :
        /\ orders[o].exists
        /\ orders[o].status = "CANCELADO"
        /\ nextItemId = 3
        /\ ItemsOf(items, o) = {2}
        /\ Len(history) = 2
        /\ current = 1
        /\ history[1].kind = "CreateOrder"
        /\ history[2].kind = "CancelOrder"

\* C12: undo() with the cursor before the first command and redo() with
\* the cursor at the end of the history return False and change neither
\* the history, nor the cursor, nor the store.
Thm_C12 ==
    /\ current < 0 =>
          LET r == invoker_undo(history, current, Store)
          IN r.res = "False" /\ r.history = history /\ r.current = current
             /\ r.S = Store
    /\ current >= Len(history) - 1 =>
          LET r == invoker_redo(history, current, Store)
          IN r.res = "False" /\ r.history = history /\ r.current = current
             /\ r.S = Store

\* C12 witness: every command of a two-command history has been undone;
\* the cursor is before the first command.
Wit_C12 ==
    /\ Len(history) = 2
    /\ current = -1
    /\ history[1].undone
    /\ history[2].undone

\* C13: the history never holds more than max_history commands and the
\* cursor stays between -1 and the index of the last command; an execute
\* on a full history with the cursor at its end drops the oldest command,
\* keeps the others in order and leaves the cursor on the new command.
Thm_C13 ==
    /\ [](Len(history) <= MaxHistory /\ -1 <= current /\ current < Len(history))
    /\ [][(Executed /\ current + 1 = MaxHistory) =>
             /\ Len(history') = MaxHistory
             /\ SubSeq(history', 1, MaxHistory - 1) = SubSeq(history, 2, MaxHistory)
             /\ current' = MaxHistory - 1
             /\ can_undo(history'[current' + 1])]_vars

\* C13 witness: all requests spent, the history full with the cursor at
\* its end, and the creation of the existing order no longer in it.
Wit_C13 ==
    /\ budget = 0
    /\ Len(history) = MaxHistory
    /\ current = MaxHistory - 1
    /\ \E o \in OrderIds : orders[o].exists
    /\ \A i \in 1..Len(history) : history[i].kind # "CreateOrder" /\ can_undo(history[i])

\* C14: when the execute() of redo() or the undo() of undo() raises, the
\* history, the cursor and the store are as they were before the call;
\* when the execute() of a new command raises, the store is as it was.
Cex_C14 ==
    /\ LET r == invoker_redo(history, current, Store) IN
          r.res \notin {"True", "False"} =>
              r.history = history /\ r.current = current /\ r.S = Store
    /\ LET u == invoker_undo(history, current, Store) IN
          u.res \notin {"True", "False"} =>
              u.history = history /\ u.current = current /\ u.S = Store
    /\ \A o \in OrderIds : orders[o].exists =>
          /\ LET r == Execute(CancelOrderCommand(o), Store) IN
                r.res # "ok" => r.S = Store
          /\ \A l \in LineIds :
                LET r == Execute(RemoveItemCommand(o, l), Store) IN
                r.res # "ok" => r.S = Store

\* C20: after save(order, t), whatever has happened to the order since,
\* restore(order, t) leaves the order with the status and the total it had
\* at the time of that save.
Cex_C20 ==
    \A o \in OrderIds : (orders[o].exists /\ saved[o] # <<>>) =>
        LET r == caretaker_restore(mementos, Store, o, saved[o][1])
        IN /\ r.S.orders[o].status = saved[o][2]
           /\ r.S.orders[o].total_price = saved[o][3]

\* C15: complete_station_item leaves the order LISTO when the row it
\* completes was the last incomplete row of an EN_PREPARACION order; in
\* every other case it leaves the status of the order as it was.
Cex_C15 ==
    \A t \in STATION_TYPES, o \in OrderIds : orders[o].exists =>
        LET r == complete_station_item(Store, mementos, t, o)
            last == /\ QueueOf(queue, t, o).pending = 1
                    /\ CountPending(queue, o, STATION_TYPES) = 1
        IN r.S.orders[o].status =
              IF last /\ orders[o].status = "EN_PREPARACION"
              THEN "LISTO" ELSE orders[o].status

\* The rules of the classifier in their fixed order: hot beverages, cold
\* beverages, bakery, main kitchen, desserts, default.
RuleOrder == <<"hot_beverages", "cold_beverages", "bakery", "main_kitchen",
               "dessert", "default">>

\* The first rule, in the fixed order, whose predicate matches.
FirstRule(d) ==
    RuleOrder[CHOOSE i \in 1..Len(RuleOrder) :
                 /\ can_handle(RuleOrder[i], d)
                 /\ \A j \in 1..(i - 1) : ~can_handle(RuleOrder[j], d)]

\* The station the first matching rule targets.
TargetStation(d) == get_station_type(FirstRule(d))

\* The classification of a product does not depend on the state of the
\* store: what holds of it for every product is checked in the states
\* in which no order has been created yet.
NoOrderYet == nextOrderId = 1

\* The routers an order can be routed by: one that lives on, with the
\* stations its handlers hold, and a new one.
RouterCaches == {cache, {}}

\* The lines listed in a result of route_order, in a set.
Listed(assigned) == {assigned[i].line : i \in 1..Len(assigned)}

\* The router finds a station for the rule: its handler holds one, or the
\* station of the type is active.
HasStation(c, h) == h \in c \/ stations[get_station_type(h)]

\* C16: for every product, the chain hands the line to the first rule, in
\* the order hot beverages, cold beverages, bakery, main kitchen, desserts,
\* default, whose predicate matches; the default rule matches every
\* product and targets the main kitchen.  route_order assigns every line
\* whose rule finds a station to the station of that rule and to no other,
\* lists it once in the result, under that station, and leaves an
\* incomplete row of the order at that station.
Thm_C16 ==
    /\ NoOrderYet =>
          \A d \in ProductData :
              /\ station_handle(first_handler, d) = FirstRule(d)
              /\ can_handle("default", d)
    /\ get_station_type("default") = "COCINA"
    /\ \A o \in OrderIds, c \in RouterCaches : orders[o].exists =>
          LET r == route_order(Store, c, stations, o)
              a == assignments(r.assigned)
          IN /\ \A l \in ItemsOf(items, o) :
                   LET d == Catalog[items[l].product] IN
                   HasStation(c, FirstRule(d)) =>
                      /\ Cardinality({i \in 1..Len(r.assigned) : r.assigned[i].line = l}) = 1
                      /\ \A i \in 1..Len(r.assigned) :
                            r.assigned[i].line = l =>
                               r.assigned[i].station = TargetStation(d)
                      /\ \A t \in DOMAIN a :
                            Cardinality({i \in 1..Len(a[t]) : a[t][i] = l})
                               = IF t = TargetStation(d) THEN 1 ELSE 0
                      /\ QueueOf(r.queue, TargetStation(d), o).pending = 1
             /\ Listed(r.assigned) \subseteq ItemsOf(items, o)

\* C16 witness: an order of a coffee and a sandwich has been routed: it
\* has an incomplete row at the hot-beverage station and one at the main
\* kitchen.
Wit_C16 ==
    \E o \in OrderIds :
        /\ orders[o].exists
        /\ Cardinality(ItemsOf(items, o)) = 2
        /\ QueueOf(queue, "BEBIDAS_CALIENTES", o).pending = 1
        /\ QueueOf(queue, "COCINA", o).pending = 1

\* C17: route_order assigns the lines of an order in non-increasing order
\* of the priority computed for them, every line that finds a station
\* among them; the handler that computes the priority of a product is the
\* one that processes it, and neither the priority bonus nor the
\* preparation time of a product changes the rule that processes it.
Thm_C17 ==
    /\ NoOrderYet =>
          \A d \in ProductData :
              /\ get_handler_for_item(d) = station_handle(first_handler, d)
              /\ \A p \in PrepTimes, b \in BOOLEAN :
                    LET e == [d EXCEPT !.preparation_time = p, !.caliente = b] IN
                    e \in ProductData =>
                       station_handle(first_handler, e) = station_handle(first_handler, d)
    /\ \A o \in OrderIds, c \in RouterCaches : orders[o].exists =>
          LET r == route_order(Store, c, stations, o).assigned IN
          /\ \A i, j \in 1..Len(r) : i < j => r[i].priority >= r[j].priority
          /\ \A i \in 1..Len(r) :
                LET d == Catalog[items[r[i].line].product] IN
                /\ r[i].priority = get_priority(FirstRule(d), d)
                /\ r[i].station = TargetStation(d)
          /\ \A l \in ItemsOf(items, o) :
                HasStation(c, FirstRule(Catalog[items[l].product])) => l \in Listed(r)

\* C17 witness: an order whose first line is a coffee (priority 19) and
\* whose second line is a sandwich (priority 28) is in preparation with a
\* row at each of the two stations: the router assigned the second line
\* first.
Wit_C17 ==
    \E o \in OrderIds :
        /\ orders[o].exists
        /\ orders[o].status = "EN_PREPARACION"
        /\ \E l1, l2 \in ItemsOf(items, o) :
              /\ l1 < l2
              /\ items[l1].product = 1
              /\ items[l2].product = 2
        /\ QueueOf(queue, "COCINA", o).pending = 1
        /\ QueueOf(queue, "BEBIDAS_CALIENTES", o).pending = 1
        /\ LET r == route_order(Store, {}, stations, o).assigned IN
              Len(r) = 2 /\ r[1].line > r[2].line /\ r[1].priority > r[2].priority

\* C18: a station never has more than one incomplete row of an order, and
\* routing an order that has incomplete rows adds none at their stations.
Thm_C18 ==
    /\ \A t \in STATION_TYPES, o \in OrderIds : QueueOf(queue, t, o).pending <= 1
    /\ \A o \in OrderIds, c \in RouterCaches : orders[o].exists =>
          LET r == route_order(Store, c, stations, o) IN
          \A t \in STATION_TYPES :
              QueueOf(queue, t, o).pending = 1 => QueueOf(r.queue, t, o) = QueueOf(queue, t, o)

\* C18 witness: an order was routed, completed by a station and routed
\* again: the station has a completed row and one incomplete row of it.
Wit_C18 ==
    \E t \in STATION_TYPES, o \in OrderIds :
        /\ orders[o].exists
        /\ QueueOf(queue, t, o).completed
        /\ QueueOf(queue, t, o).pending = 1

\* C19: when the station type a line is routed to has no active station,
\* route_order inserts no queue row for the line, assigns every other line
\* of the order whose station is active, and lists the failed line in its
\* result.
Cex_C19 ==
    \A o \in OrderIds, c \in RouterCaches : orders[o].exists =>
        LET r == route_order(Store, c, stations, o) IN
        \A l \in ItemsOf(items, o) :
            LET t == TargetStation(Catalog[items[l].product]) IN
            IF stations[t]
            THEN l \in Listed(r.assigned)
            ELSE /\ QueueOf(r.queue, t, o) = QueueOf(queue, t, o)
                 /\ l \in Listed(r.assigned)

\* The memento restore(order, tag) picks is corrupt: its stored checksum
\* is not the checksum of its content.
Corrupt(o, tag) ==
    /\ FindTag(mementos[o], tag) # 0
    /\ ~is_valid(mementos[o][FindTag(mementos[o], tag)])

\* C21: restore of a memento whose stored checksum does not match its
\* content fails with the error of a corrupt memento (ValueError) and
\* leaves the order as it was; a step that restores such a memento changes
\* neither the store nor the snapshots.
Thm_C21 ==
    /\ [](\A o \in OrderIds, tag \in RestoreTags :
            (orders[o].exists /\ Corrupt(o, tag)) =>
               LET r == caretaker_restore(mementos, Store, o, tag)
               IN r.res = "ValueError" /\ r.S = Store)
    /\ [][\A o \in OrderIds, tag \in RestoreTags :
            (Corrupt(o, tag) /\ Restore(o, tag)) =>
               Store' = Store /\ mementos' = mementos]_vars

\* C21 witness: a PENDIENTE order has a snapshot 'initial' whose status
\* reads ENTREGADO under the checksum of the snapshot taken, and the
\* requests made after the creation and the save are spent.
Wit_C21 ==
    \E o \in OrderIds :
        /\ orders[o].exists
        /\ orders[o].status = "PENDIENTE"
        /\ Corrupt(o, "initial")
        /\ mementos[o][FindTag(mementos[o], "initial")].status = "ENTREGADO"
        /\ budget = 0

\* The snapshot lists of the orders together with the list of one more
\* order, which is a copy of the list of order o.
WithOther(o) ==
    [x \in OrderIds \cup {MaxOrders + 1} |->
        IF x \in OrderIds THEN mementos[x] ELSE mementos[o]]

\* C22: no order ever has more than max_snapshots_per_order snapshots; a
\* save on a list below the cap appends the new memento, a save on a full
\* list drops exactly its oldest memento and appends the new one, so the
\* others keep their order and the newest is last (it is what get_latest
\* returns and the last entry of get_history); the lists of the other
\* orders are as before.
Thm_C22 ==
    /\ [](\A o \in OrderIds :
            /\ Len(mementos[o]) <= max_snapshots_per_order
            /\ orders[o].exists =>
                  LET mm == WithOther(o)
                      r == caretaker_save(mm, Store, o, "initial")
                      new == create_memento(Store, o, "initial")
                  IN /\ \A x \in DOMAIN mm : x # o => r[x] = mm[x]
                     /\ Len(r[o]) <= max_snapshots_per_order
                     /\ r[o] = IF Len(mm[o]) = max_snapshots_per_order
                               THEN Append(Tail(mm[o]), new)
                               ELSE Append(mm[o], new)
                     /\ get_latest(r, o) = new
                     /\ get_history(r, o)[Len(r[o])].tag = "initial")
    /\ [][\A o \in OrderIds : mementos'[o] # mementos[o] =>
            /\ \A x \in OrderIds : x # o => mementos'[x] = mementos[x]
            /\ mementos'[o] # <<>>
            /\ LET new == get_latest(mementos', o) IN
                 /\ new.status = orders'[o].status
                 /\ new.total_price = orders'[o].total_price
                 /\ mementos'[o] = IF Len(mementos[o]) = max_snapshots_per_order
                                   THEN Append(Tail(mementos[o]), new)
                                   ELSE Append(mementos[o], new)]_vars

\* C22 witness: the list of an order is full of snapshots 'initial' of
\* the cancelled order: the snapshot 'cancelled', taken when the order was
\* cancelled, has been dropped as the oldest.
Wit_C22 ==
    \E o \in OrderIds :
        /\ orders[o].exists
        /\ max_snapshots_per_order > 1
        /\ Len(mementos[o]) = max_snapshots_per_order
        /\ \A i \in 1..Len(mementos[o]) :
              mementos[o][i].tag = "initial" /\ mementos[o][i].status = "CANCELADO"

\* The step is a successful transition of order o: advance_order or
\* cancel_order has returned, or the execute() of a CancelOrder command has.
Transition(o) ==
    \/ Advance(o) /\ advance_order(Store, mementos, o).res = "ok"
    \/ Cancel(o) /\ cancel_order(Store, mementos, o).res = "ok"
    \/ /\ ExecCancelOrder(o)
       /\ CancelOrderExecute(CancelOrderCommand(o), Store).res = "ok"

\* C23: after every successful transition of an order (advance or cancel)
\* the latest snapshot of the order records the status the transition has
\* written.
Cex_C23 ==
    [][\A o \in OrderIds : Transition(o) =>
          /\ mementos'[o] # <<>>
          /\ get_latest(mementos', o).status = orders'[o].status]_vars

\* C24: after a successful cancel_order, and after the successful
\* execute() of a CancelOrder command, no station has an incomplete row of
\* the order.
Cex_C24 ==
    [][\A o \in OrderIds :
          /\ (Cancel(o) /\ cancel_order(Store, mementos, o).res = "ok") =>
                CountPending(queue', o, STATION_TYPES) = 0
          /\ orders[o].exists =>
                LET c == CancelOrderExecute(CancelOrderCommand(o), Store) IN
                c.res = "ok" => CountPending(c.S.queue, o, STATION_TYPES) = 0]_vars

\* C25: the advance of a request has the result it has when the request
\* runs alone, after the requests that wrote before it: it leaves the
\* store and the snapshots as advance_order on the order as it is in the
\* database leaves them.  (Then no status is written twice and no
\* timestamp or snapshot of a transition is produced twice.)
Cex_C25 ==
    [][\A r \in Requests : AdvanceGot(r) =>
          LET o == inflight[r].order
              a == advance_order(Store, mementos, o)
          IN Store' = a.S /\ mementos' = a.mm]_vars

Attached(n) == {n.observers[i] : i \in 1..Len(n.observers)}

\* The observer has received one more notification, of the event.
Received(n, m, x, event) == m.inbox[x] = Append(n.inbox[x], event)

\* C27: an observer whose update() raises neither makes the sending of an
\* event fail nor keeps the event from the other observers: Subject.notify
\* returns and every attached observer that works has received the event
\* (if it takes events of the kind); notify_order_ready for an order whose
\* assigned waiter and customer are registered returns, and each of the
\* two that works has received ORDER_READY.
Cex_C27 ==
    /\ \A event \in Events :
          LET r == subject_notify(notif, event) IN
          /\ r.res = "ok"
          /\ \A x \in Attached(notif) \ notif.broken :
                relevant(x, event) => Received(notif, r.n, x, event)
    /\ ("waiter" \in notif.waiters /\ "customer" \in notif.customers) =>
          LET r == notify_order_ready(notif, TRUE) IN
          /\ r.res = "ok"
          /\ \A x \in {"waiter", "customer"} \ notif.broken :
                Received(notif, r.n, x, "ORDER_READY")

\* C28: when advance_order or cancel_order fails, the status and the
\* timestamps of the order and its snapshot list are as before the call.
Cex_C28 ==
    \A o \in OrderIds : orders[o].exists =>
        /\ LET r == advance_order(Store, mementos, o) IN
              r.res # "ok" => r.S.orders[o] = orders[o] /\ r.mm[o] = mementos[o]
        /\ LET r == cancel_order(Store, mementos, o) IN
              r.res # "ok" => r.S.orders[o] = orders[o] /\ r.mm[o] = mementos[o]

\* C29: an undo of a CreateOrder command executed through the invoker
\* deletes the order the command created and every line of that order.
Thm_C29 ==
    [][UndoOf({"CreateOrder"}) =>
         LET o == history[current + 1].order IN
           /\ history'[current + 1].undone
           /\ o \in OrderIds =>
                 /\ orders[o].exists
                 /\ ~orders'[o].exists
                 /\ ItemsOf(items', o) = {}
                 /\ \A l \in ItemsOf(items, o) : ~items'[l].exists]_vars

\* C29 witness: the CreateOrder command of a one-line order has been
\* undone, and neither the order nor its line exists.
Wit_C29 ==
    /\ history # <<>>
    /\ history[1].kind = "CreateOrder"
    /\ history[1].citems # <<>>
    /\ history[1].undone
    /\ nextOrderId > 1
    /\ nextItemId > 1
    /\ \A o \in OrderIds : ~orders[o].exists
    /\ \A l \in LineIds : ~items[l].exists

\* The status and the two timestamps of an order in a store.
Stamps(S, o) ==
    <<S.orders[o].status, S.orders[o].prepared_at, S.orders[o].delivered_at>>

\* C30: execute() and then undo() of an UpdateOrderStatus or CancelOrder
\* command leave the status and prepared_at and delivered_at of the order
\* as they were immediately before the execute().
Cex_C30 ==
    \A o \in OrderIds : orders[o].exists =>
        /\ \A s \in STATUS_CHOICES :
              LET e == UpdateOrderStatusExecute(UpdateOrderStatusCommand(o, s), Store)
                  u == UpdateOrderStatusUndo(e.cmd, e.S)
              IN (e.res = "ok" /\ can_undo(e.cmd)) =>
                    u.res = "ok" /\ Stamps(u.S, o) = Stamps(Store, o)
        /\ LET e == CancelOrderExecute(CancelOrderCommand(o), Store)
                u == CancelOrderUndo(e.cmd, e.S)
            IN (e.res = "ok" /\ can_undo(e.cmd)) =>
                  u.res = "ok" /\ Stamps(u.S, o) = Stamps(Store, o)

\* The lines of an order as a multiset of (product, quantity, unit price,
\* extras): each tuple with the number of lines that carry it.
LinesWithExtras(it, o) ==
    {<<it[l].product, it[l].quantity, it[l].unit_price, it[l].extras,
       Cardinality({k \in ItemsOf(it, o) :
                      /\ it[k].product = it[l].product
                      /\ it[k].quantity = it[l].quantity
                      /\ it[k].unit_price = it[l].unit_price
                      /\ it[k].extras = it[l].extras})>> : l \in ItemsOf(it, o)}

\* execute() and then undo() of an AddItem command and of a RemoveItem
\* command on order o leave the lines and the total of the order as they
\* were.
RoundTrips(o) ==
    /\ \A p \in Products, q \in Quantities, e \in ExtrasChoices :
          LET x == AddItemExecute(AddItemCommand(o, p, q, e), Store)
              u == AddItemUndo(x.cmd, x.S)
          IN (x.res = "ok" /\ Fits(x.S)) =>
                /\ u.res = "ok"
                /\ LinesWithExtras(u.S.items, o) = LinesWithExtras(items, o)
                /\ u.S.orders[o].total_price = orders[o].total_price
    /\ \A l \in LineIds :
          LET x == RemoveItemExecute(RemoveItemCommand(o, l), Store)
              u == RemoveItemUndo(x.cmd, x.S)
          IN (x.res = "ok" /\ Fits(u.S)) =>
                /\ u.res = "ok"
                /\ LinesWithExtras(u.S.items, o) = LinesWithExtras(items, o)
                /\ u.S.orders[o].total_price = orders[o].total_price

Cex_C32 ==
    [][\A l \in LineIds :
         (items[l].exists /\ items'[l].exists /\ items'[l].order = items[l].order) =>
            /\ items'[l].unit_price = items[l].unit_price
            /\ items'[l].extras_price = items[l].extras_price]_vars

\* C33: in every state, prepared_at of an order is set exactly when its
\* status is LISTO or ENTREGADO, and delivered_at exactly when its status
\* is ENTREGADO.
Cex_C33 ==
    \A o \in OrderIds : orders[o].exists =>
        /\ (orders[o].prepared_at # 0) <=> (orders[o].status \in {"LISTO", "ENTREGADO"})
        /\ (orders[o].delivered_at # 0) <=> (orders[o].status = "ENTREGADO")

\* C34: a restore that finds a valid memento under the tag writes the
\* status, total price, table number and special instructions of the
\* memento onto the order and leaves every line as it was.
Thm_C34 ==
    [][\A o \in OrderIds, tag \in EditTags :
         (Restore(o, tag) /\ caretaker_restore(mementos, Store, o, tag).res = "ok") =>
            LET m == mementos[o][FindTag(mementos[o], tag)] IN
              /\ orders'[o].status = m.status
              /\ orders'[o].total_price = m.total_price
              /\ orders'[o].table_number = m.table_number
              /\ orders'[o].special_instructions = m.special_instructions
              /\ items' = items]_vars

\* C34 witness: an order restored to a snapshot taken before its lines and
\* its instructions changed: it carries a line while the snapshot it
\* agrees with recorded none, and the requests are spent.
Wit_C34 ==
    \E o \in OrderIds :
        /\ orders[o].exists
        /\ budget = 0
        /\ ItemsOf(items, o) # {}
        /\ mementos[o] # <<>>
        /\ LET m == mementos[o][1] IN
             /\ m.items_count = 0
             /\ m.tag = "before_edit"
             /\ orders[o].total_price = m.total_price
             /\ orders[o].special_instructions = m.special_instructions
             /\ orders[o].total_price # SumSubtotals(items, ItemsOf(items, o))

\* C35: a call of route_order inserts a queue row only at a station that
\* is active during the call.
Cex_C35 ==
    [][\A o \in OrderIds, shared \in BOOLEAN, t \in STATION_TYPES :
         (Route(o, shared) /\ QueueOf(queue', t, o).pending > QueueOf(queue, t, o).pending)
            => stations[t]]_vars

\* C36: after a redo that returned True, a call of undo returns True (and
\* so reverts the command once more).
Cex_C36 ==
    [][(Redo /\ invoker_redo(history, current, Store).res = "True") =>
          invoker_undo(history', current', Store').res = "True"]_vars

\* C37: a step that makes the status of an order LISTO ends with no
\* incomplete row of the order in any station queue.
Cex_C37 ==
    [][\A o \in OrderIds :
         (orders'[o].exists /\ orders'[o].status = "LISTO" /\ orders[o].status # "LISTO")
            => CountPending(queue', o, STATION_TYPES) = 0]_vars

LastTag(ms, tag) ==
    IF \E i \in 1..Len(ms) : ms[i].tag = tag
    THEN CHOOSE i \in 1..Len(ms) :
             ms[i].tag = tag /\ \A j \in (i + 1)..Len(ms) : ms[j].tag # tag
    ELSE 0

\* C39: restore(order, tag) leaves the order as the memento saved last
\* under the tag describes it.
Cex_C39 ==
    \A o \in OrderIds, tag \in EditTags :
        (orders[o].exists /\ LastTag(mementos[o], tag) # 0) =>
            caretaker_restore(mementos, Store, o, tag).S =
                restore_from_memento(Store, o, mementos[o][LastTag(mementos[o], tag)])

\* The order has a line, is EN_PREPARACION and has been routed, and every
\* row it has in the station queues is completed.
Prepared(o) ==
    /\ orders[o].exists
    /\ orders[o].status = "EN_PREPARACION"
    /\ ItemsOf(items, o) # {}
    /\ \E t \in STATION_TYPES : QueueOf(queue, t, o).completed
    /\ CountPending(queue, o, STATION_TYPES) = 0

\* C40: an order that is EN_PREPARACION with all its station rows completed
\* becomes LISTO in the end, while the stations do their work and whatever
\* the clients do.
Cex_C40 ==
    \A o \in OrderIds : Prepared(o) ~> (orders[o].status = "LISTO")

====
